---- MODULE Spec2Model ----
(***************************************************************************)
(* A model of dragonfly's stylesheet engine (src/src/stylesheet.rs): the   *)
(* preprocessing pass, the CssParser state machine and inline parsing, and *)
(* of the layout tree builder (src/src/layout.rs, src/src/dom.rs), the web *)
(* context (src/src/context.rs) and the font storage (src/src/fonts.rs).   *)
(*                                                                         *)
(* A Rust String is modelled as a sequence of characters, each character a *)
(* one-element TLA+ string.  Byte offsets are kept where the code slices   *)
(* by byte: Width gives a character's UTF-8 length.                        *)
(***************************************************************************)
EXTENDS Integers, Sequences, FiniteSets, TLC

VARIABLES
    css,      \* the text handed to from_css / remove_comments_and_extra_whitespace
    mode,     \* the ParserMode handed to from_css
    inline,   \* the text handed to from_inline
    src,      \* the fragments css or inline was assembled from (ghost)
    parser,   \* the CssParser struct of the running call
    attrs,    \* parse_inline: the pieces of inline.split(';') not yet visited
    pc,       \* position of the running call
    steps,    \* number of advance() calls made by parse()
    out1,     \* result of the preprocessing pass on css
    out2,     \* result of the preprocessing pass on out1
    ret,      \* the value the call returned
    doc,      \* the document tree handed to Layout::compute
    layout,   \* the Layout struct under construction
    calls,    \* the calls of compute_node still to run, the next one first
    ctx,      \* the WebContext struct
    net,      \* number of Puller::pull_str calls made so far (ghost)
    storage,  \* the FontStorage struct
    lookups   \* the get_font_data calls made by by_name so far (ghost)

vars ==
    <<css, mode, inline, src, parser, attrs, pc, steps, out1, out2, ret,
      doc, layout, calls, ctx, net, storage, lookups>>

\* the variables of the layout tree builder
layoutVars == <<doc, layout, calls>>

\* no layout is being built
LayoutIdle ==
    /\ doc = <<>>
    /\ layout = [arena |-> <<>>, root_id |-> 0]
    /\ calls = <<>>

\* the variables of the web context and of the font storage
hostVars == <<ctx, net, storage, lookups>>

\* no web context and no font storage has been built
HostIdle ==
    /\ ctx = <<>>
    /\ net = 0
    /\ storage = <<>>
    /\ lookups = <<>>

-----------------------------------------------------------------------------
(* Bounds of the model *)

\* longest raw text drawn for the preprocessing pass
MaxNormLen == 6

\* most fragments a stylesheet text is assembled from
MaxFragments == 3

\* most `property: value` pieces an inline text is assembled from
MaxInlineAttrs == 3

-----------------------------------------------------------------------------
(* Characters and strings *)

\* a two-byte character (U+00E9)
Eacute == "U+00E9"

\* marks the second byte of a two-byte character in a byte view
Cont == "CONT"

\* the outcome of an unwrap on None, a slice off a char boundary or an
\* index out of bounds
Panic == "PANIC"

\* char::len_utf8 on the model's characters
Width(c) == IF c = Eacute THEN 2 ELSE 1

\* char::is_whitespace on the model's characters
is_whitespace(c) == c \in {" ", "\n", "\t"}

RECURSIVE Concat(_)
Concat(ss) == IF ss = <<>> THEN <<>> ELSE Head(ss) \o Concat(Tail(ss))

\* the bytes of a string: one entry per byte, a character at its first byte
RECURSIVE Bytes(_)
Bytes(s) ==
    IF s = <<>> THEN <<>>
    ELSE IF Len(s) = 1
         THEN (IF Width(Head(s)) = 2 THEN <<Head(s), Cont>> ELSE <<Head(s)>>)
    ELSE LET half == Len(s) \div 2
         IN Bytes(SubSeq(s, 1, half)) \o Bytes(SubSeq(s, half + 1, Len(s)))

\* the closure get_char, |s[pos..].chars().next().unwrap()|, on the byte view
\* b with pos counted from 0: Panic at the end and off a char boundary
get_char(b, pos) ==
    IF pos >= Len(b) THEN Panic
    ELSE IF b[pos + 1] = Cont THEN Panic
    ELSE b[pos + 1]

\* the result of a call that panicked
PanicResult == [panic |-> TRUE, out |-> <<>>]

\* the result of a call that returned v
Returned(v) == [panic |-> FALSE, out |-> v]

-----------------------------------------------------------------------------
(* The preprocessing pass *)

\* whether byte i switches the comment state on
CommentOpens(b, i) == get_char(b, i) = "/" /\ get_char(b, i + 1) = "*"

\* whether byte i switches the comment state off
CommentCloses(b, i) ==
    i > 2 /\ get_char(b, i - 2) = "*" /\ get_char(b, i - 1) = "/"

\* whether the character at byte i, outside a comment, is pushed
KeepsChar(b, i) ==
    ~(i > 0 /\ is_whitespace(get_char(b, i)) /\ is_whitespace(get_char(b, i - 1)))

\* one iteration of the loop of remove_comments_and_extra_whitespace, for
\* byte i, on the loop's state st (in_comment and result, or a panic)
norm_step(b, i, st) ==
    LET c == get_char(b, i) IN
    IF c = Panic THEN [st EXCEPT !.panic = TRUE]
    ELSE IF c = "/" /\ get_char(b, i + 1) = Panic THEN [st EXCEPT !.panic = TRUE]
    ELSE LET in2 == IF CommentOpens(b, i) THEN TRUE
                    ELSE IF CommentCloses(b, i) THEN FALSE
                    ELSE st.in_comment
             res2 == IF ~in2 /\ KeepsChar(b, i)
                     THEN Append(st.result, IF is_whitespace(c) THEN " " ELSE c)
                     ELSE st.result
         IN [panic |-> FALSE, in_comment |-> in2, result |-> res2]

\* the iterations of the loop for the bytes i with from <= i < to, in order,
\* ending at the first panic
RECURSIVE norm_loop(_, _, _, _)
norm_loop(b, from, to, st) ==
    IF st.panic \/ from >= to THEN st
    ELSE IF to = from + 1 THEN norm_step(b, from, st)
    ELSE LET half == (from + to) \div 2
         IN norm_loop(b, half, to, norm_loop(b, from, half, st))

remove_comments_and_extra_whitespace(s) ==
    LET b == Bytes(s)
        st == norm_loop(b, 0, Len(b), [panic |-> FALSE, in_comment |-> FALSE, result |-> <<>>])
    IN IF st.panic THEN PanicResult ELSE Returned(st.result)

-----------------------------------------------------------------------------
(* Option values: None is the empty tuple, Some(x) the one-element tuple *)

None == <<>>

Some(x) == <<x>>

-----------------------------------------------------------------------------
(* Text helpers of the Rust standard library that the parser calls *)

Digits == {"0", "1", "2", "3", "4", "5", "6", "7", "8", "9"}

LowerLetters ==
    <<"a", "b", "c", "d", "e", "f", "g", "h", "i", "j", "k", "l", "m",
      "n", "o", "p", "q", "r", "s", "t", "u", "v", "w", "x", "y", "z">>

UpperLetters ==
    <<"A", "B", "C", "D", "E", "F", "G", "H", "I", "J", "K", "L", "M",
      "N", "O", "P", "Q", "R", "S", "T", "U", "V", "W", "X", "Y", "Z">>

Range(f) == {f[i] : i \in DOMAIN f}

\* char::is_numeric on the model's characters
is_numeric(c) == c \in Digits

\* char::is_alphabetic on the model's characters
is_alphabetic(c) == c \in Range(LowerLetters) \cup Range(UpperLetters) \cup {Eacute}

\* char::to_lowercase on the model's characters
to_lowercase_char(c) ==
    IF c \in Range(UpperLetters)
    THEN LowerLetters[CHOOSE i \in DOMAIN UpperLetters : UpperLetters[i] = c]
    ELSE c

to_lowercase(s) == [i \in DOMAIN s |-> to_lowercase_char(s[i])]

RECURSIVE trim_start(_)
trim_start(s) ==
    IF s # <<>> /\ is_whitespace(Head(s)) THEN trim_start(Tail(s)) ELSE s

RECURSIVE trim_end(_)
trim_end(s) ==
    IF s # <<>> /\ is_whitespace(s[Len(s)])
    THEN trim_end(SubSeq(s, 1, Len(s) - 1))
    ELSE s

\* str::trim
trim(s) == trim_end(trim_start(s))

\* str::split(sep): the pieces between the separators, empty pieces kept.
\* cut(k) is the position of the k-th separator, 0 before the first piece and
\* Len(s) + 1 after the last.
split(s, sep) ==
    LET seps == {i \in DOMAIN s : s[i] = sep}
        cut(k) == IF k = 0 THEN 0
                  ELSE IF k > Cardinality(seps) THEN Len(s) + 1
                  ELSE CHOOSE i \in seps : Cardinality({j \in seps : j < i}) = k - 1
    IN [k \in 1..(Cardinality(seps) + 1) |-> SubSeq(s, cut(k - 1) + 1, cut(k) - 1)]

\* str::split_whitespace: the maximal runs of non-whitespace characters
RECURSIVE split_ws_from(_, _)
split_ws_from(s, cur) ==
    IF s = <<>> THEN (IF cur = <<>> THEN <<>> ELSE <<cur>>)
    ELSE IF is_whitespace(Head(s))
         THEN (IF cur = <<>> THEN <<>> ELSE <<cur>>) \o split_ws_from(Tail(s), <<>>)
         ELSE split_ws_from(Tail(s), Append(cur, Head(s)))

split_whitespace(s) == split_ws_from(s, <<>>)

\* |&s[n..]|: the text from byte n on, Panic off a char boundary
RECURSIVE slice_from(_, _)
slice_from(s, n) ==
    IF n = 0 THEN [panic |-> FALSE, out |-> s]
    ELSE IF s = <<>> \/ Width(Head(s)) > n THEN PanicResult
    ELSE slice_from(Tail(s), n - Width(Head(s)))

-----------------------------------------------------------------------------
(* Unit and Dimension *)

\* an f32 is held as an integer number of thousandths
NumScale == 1000

RECURSIVE digits_value(_)
digits_value(ds) ==
    IF ds = <<>> THEN 0
    ELSE 10 * digits_value(SubSeq(ds, 1, Len(ds) - 1))
         + (CHOOSE n \in 0..9 : <<"0", "1", "2", "3", "4", "5", "6", "7", "8", "9">>[n + 1] = ds[Len(ds)])

\* str::parse::<f32> on a text of digits and dots: None when it is no number
parse_f32(ns) ==
    LET dots == {i \in DOMAIN ns : ns[i] = "."}
        k == IF dots = {} THEN Len(ns) + 1 ELSE CHOOSE i \in dots : TRUE
        whole == SubSeq(ns, 1, k - 1)
        frac == SubSeq(ns, k + 1, Len(ns))
        frac3 == SubSeq(frac \o <<"0", "0", "0">>, 1, 3)
    IN IF Cardinality(dots) > 1 \/ Len(ns) = Cardinality(dots) THEN None
       ELSE Some(NumScale * digits_value(whole) + digits_value(frac3))

\* Dimension::parse_number: the number and the length of the number text
parse_number(s) ==
    LET number_str == SelectSeq(s, LAMBDA c : is_numeric(c) \/ c = ".")
        parsed == parse_f32(number_str)
    IN IF parsed # None THEN <<parsed[1], Len(number_str)>> ELSE <<0, 0>>

Absolute(n) == [kind |-> "Absolute", value |-> n]

\* Unit::from_str
Unit_from_str(s, num) ==
    LET t == SelectSeq(to_lowercase(trim(s)),
                       LAMBDA c : is_alphabetic(c) \/ is_whitespace(c))
    IN CASE t = <<"p", "x">> -> Absolute(num)
         [] t = <<"i", "n">> -> Absolute(num * 96)
         [] t = <<"c", "m">> -> Absolute((num * 9600) \div 254)
         [] t = <<"m", "m">> -> Absolute(((num * 9600) \div 254) \div 10)
         [] t = <<"e", "m">> -> [kind |-> "RelativeToParentFontSize", value |-> num]
         [] t = <<"e", "x">> -> [kind |-> "RelativeToParentFontHeight", value |-> num]
         [] OTHER -> Absolute(num)

\* Dimension::from_str: a Dimension, or Panic when the unit slice panics
Dimension_from_str(s) ==
    LET pn == parse_number(s)
        rest == slice_from(s, pn[2])
    IN IF rest.panic THEN [panic |-> TRUE, number |-> 0, unit |-> Absolute(0)]
       ELSE [panic |-> FALSE, number |-> pn[1], unit |-> Unit_from_str(rest.out, pn[1])]

-----------------------------------------------------------------------------
(* Position, FontFamily, Display and Declaration *)

\* the property names the resolver handles
Prop ==
    [display |-> <<"d", "i", "s", "p", "l", "a", "y">>,
     position |-> <<"p", "o", "s", "i", "t", "i", "o", "n">>,
     color |-> <<"c", "o", "l", "o", "r">>,
     background_color |-> <<"b", "a", "c", "k", "g", "r", "o", "u", "n", "d", "-", "c", "o", "l", "o", "r">>,
     font_family |-> <<"f", "o", "n", "t", "-", "f", "a", "m", "i", "l", "y">>,
     margin |-> <<"m", "a", "r", "g", "i", "n">>,
     margin_top |-> <<"m", "a", "r", "g", "i", "n", "-", "t", "o", "p">>,
     margin_right |-> <<"m", "a", "r", "g", "i", "n", "-", "r", "i", "g", "h", "t">>,
     margin_bottom |-> <<"m", "a", "r", "g", "i", "n", "-", "b", "o", "t", "t", "o", "m">>,
     margin_left |-> <<"m", "a", "r", "g", "i", "n", "-", "l", "e", "f", "t">>]

\* Position's strum table: keyword, variant
PositionTable ==
    { <<<<"s", "t", "a", "t", "i", "c">>, "Static">>,
      <<<<"r", "e", "l", "a", "t", "i", "v", "e">>, "Relative">>,
      <<<<"a", "b", "s", "o", "l", "u", "t", "e">>, "Absolute">>,
      <<<<"f", "i", "x", "e", "d">>, "Fixed">>,
      <<<<"s", "t", "i", "c", "k", "y">>, "Sticky">> }

\* FontFamily's strum table: keyword, variant
FontFamilyTable ==
    { <<<<"s", "e", "r", "i", "f">>, "Serif">>,
      <<<<"s", "a", "n", "s", "-", "s", "e", "r", "i", "f">>, "SansSerif">>,
      <<<<"m", "o", "n", "o", "s", "p", "a", "c", "e">>, "Monospace">>,
      <<<<"c", "u", "r", "s", "i", "v", "e">>, "Cursive">>,
      <<<<"f", "a", "n", "t", "a", "s", "y">>, "Fantasy">>,
      <<<<"s", "y", "s", "t", "e", "m", "-", "u", "i">>, "SystemUi">>,
      <<<<"u", "i", "-", "s", "e", "r", "i", "f">>, "UiSerif">>,
      <<<<"u", "i", "-", "s", "a", "n", "s", "-", "s", "e", "r", "i", "f">>, "UiSansSerif">>,
      <<<<"u", "i", "-", "m", "o", "n", "o", "s", "p", "a", "c", "e">>, "UiMonospace">>,
      <<<<"u", "i", "-", "r", "o", "u", "n", "d", "e", "d">>, "UiRounded">>,
      <<<<"m", "a", "t", "h">>, "Math">>,
      <<<<"e", "m", "o", "j", "i">>, "Emoji">>,
      <<<<"f", "a", "n", "g", "s", "o", "n", "g">>, "Fangsong">> }

\* Display's strum table: keyword, variant
DisplayTable ==
    { <<<<"b", "l", "o", "c", "k">>, "Block">>,
      <<<<"i", "n", "l", "i", "n", "e">>, "Inline">>,
      <<<<"i", "n", "l", "i", "n", "e", "-", "b", "l", "o", "c", "k">>, "InlineBlock">>,
      <<<<"f", "l", "e", "x">>, "Flex">>,
      <<<<"i", "n", "l", "i", "n", "e", "-", "f", "l", "e", "x">>, "InlineFlex">>,
      <<<<"g", "r", "i", "d">>, "Grid">>,
      <<<<"i", "n", "l", "i", "n", "e", "-", "g", "r", "i", "d">>, "InlineGrid">>,
      <<<<"f", "l", "o", "w", "-", "r", "o", "o", "t">>, "FlowRoot">>,
      <<<<"n", "o", "n", "e">>, "None">>,
      <<<<"c", "o", "n", "t", "e", "n", "t", "s">>, "Contents">> }

\* the derived FromStr of a strum enum: Some(variant), None for Err
enum_from_str(table, value) ==
    IF \E e \in table : e[1] = value
    THEN Some((CHOOSE e \in table : e[1] = value)[2])
    ELSE None

\* unwrap_or with the fault of yielding the variant None for an Err
unwrap_or_none(opt, default) == IF opt = None THEN "None" ELSE opt[1]

\* Option::unwrap_or
unwrap_or(opt, default) == IF opt = None THEN default ELSE opt[1]

\* the color keywords of the model's texts that css_color knows
ColorKeywords ==
    { <<"r", "e", "d">>, <<"b", "l", "u", "e">>, <<"b", "l", "a", "c", "k">>,
      <<"w", "h", "i", "t", "e">>, <<"g", "r", "a", "y">>, <<"y", "e", "l", "l", "o", "w">>,
      <<"p", "u", "r", "p", "l", "e">>, <<"l", "i", "g", "h", "t", "g", "r", "a", "y">>,
      <<"l", "i", "g", "h", "t", "b", "l", "u", "e">> }

\* Srgb::from_str(value).ok(): a color is held as its keyword
Srgb_from_str_ok(value) == IF value \in ColorKeywords THEN Some(value) ELSE None

\* Declaration::default()
Declaration_default ==
    [display |-> "Block",
     position |-> "Static",
     color |-> None,
     background_color |-> None,
     font_family |-> None,
     margin |-> <<None, None, None, None>>]

\* FontFamily::Custom(name)
Custom(name) == [family |-> "Custom", name |-> name]

\* FontFamily::from_str(value).unwrap_or(FontFamily::Custom(value.to_string()))
FontFamily_from_str_or_custom(value) ==
    LET r == enum_from_str(FontFamilyTable, value)
    IN IF r = None THEN Custom(value) ELSE [family |-> r[1], name |-> <<>>]

-----------------------------------------------------------------------------
(* GlobalStyle *)

GlobalStyle_default == [rules |-> <<>>]

\* add_rule with the fault of keeping one rule per selector: a rule whose
\* selector is already present replaces the earlier one in place
add_rule_dedup(style, selector, decl) ==
    IF \E i \in DOMAIN style.rules : style.rules[i][1] = selector
    THEN [style EXCEPT !.rules =
             [i \in DOMAIN @ |-> IF @[i][1] = selector THEN <<selector, decl>> ELSE @[i]]]
    ELSE [style EXCEPT !.rules = Append(@, <<selector, decl>>)]

\* add_rule with the fault of putting the new rule before the earlier ones
add_rule_front(style, selector, decl) ==
    [style EXCEPT !.rules = <<<<selector, decl>>>> \o @]

\* GlobalStyle::add_rule
add_rule(style, selector, decl) ==
    [style EXCEPT !.rules = Append(@, <<selector, decl>>)]

-----------------------------------------------------------------------------
(* CssParser *)

\* CssParser::replace_browser_keyword
replace_browser_keyword(value) ==
    CASE value = <<"D", "f", "T", "e", "x", "t", "C", "o", "l", "o", "r">>
            -> <<"b", "l", "a", "c", "k">>
      [] value = <<"D", "f", "P", "a", "g", "e", "B", "a", "c", "k", "g", "r", "o", "u", "n", "d", "C", "o", "l", "o", "r">>
            -> <<"w", "h", "i", "t", "e">>
      [] value = <<"D", "f", "B", "u", "t", "t", "o", "n", "B", "o", "r", "d", "e", "r", "C", "o", "l", "o", "r">>
            -> <<"g", "r", "a", "y">>
      [] value = <<"D", "f", "I", "n", "p", "u", "t", "P", "l", "a", "c", "e", "h", "o", "l", "d", "e", "r", "T", "e", "x", "t", "C", "o", "l", "o", "r">>
            -> <<"g", "r", "a", "y">>
      [] value = <<"D", "f", "B", "u", "t", "t", "o", "n", "B", "a", "c", "k", "g", "r", "o", "u", "n", "d", "C", "o", "l", "o", "r">>
            -> <<"l", "i", "g", "h", "t", "g", "r", "a", "y">>
      [] value = <<"D", "f", "B", "u", "t", "t", "o", "n", "T", "e", "x", "t", "C", "o", "l", "o", "r">>
            -> <<"b", "l", "a", "c", "k">>
      [] value = <<"D", "f", "L", "i", "n", "k", "C", "o", "l", "o", "r">>
            -> <<"l", "i", "g", "h", "t", "b", "l", "u", "e">>
      [] value = <<"D", "f", "V", "i", "s", "i", "t", "e", "d", "C", "o", "l", "o", "r">>
            -> <<"p", "u", "r", "p", "l", "e">>
      [] value = <<"D", "f", "A", "c", "t", "i", "v", "e", "C", "o", "l", "o", "r">>
            -> <<"b", "l", "u", "e">>
      [] value = <<"D", "f", "M", "a", "r", "k", "B", "a", "c", "k", "g", "r", "o", "u", "n", "d", "C", "o", "l", "o", "r">>
            -> <<"l", "i", "g", "h", "t", "g", "r", "a", "y">>
      [] value = <<"D", "f", "M", "a", "r", "k", "T", "e", "x", "t", "C", "o", "l", "o", "r">>
            -> <<"y", "e", "l", "l", "o", "w">>
      [] value = <<"D", "f", "F", "i", "e", "l", "d", "s", "e", "t", "B", "o", "r", "d", "e", "r", "C", "o", "l", "o", "r">>
            -> <<"b", "l", "a", "c", "k">>
      [] OTHER -> value

\* CssParser::new after the preprocessing pass has returned input
CssParser_new(input, m) ==
    [input |-> input,
     pos |-> 0,
     brace_level |-> 0,
     decl_brace_level |-> None,
     selector |-> None,
     attr_name |-> None,
     decl |-> Declaration_default,
     mode |-> m,
     style |-> GlobalStyle_default,
     panicked |-> FALSE]

\* the margin assignment with the fault of counting the sides from the left
set_margin_reversed(p, i, s) ==
    LET d == Dimension_from_str(s)
    IN IF p.panicked THEN p
       ELSE IF d.panic \/ i >= 4 THEN [p EXCEPT !.panicked = TRUE]
       ELSE [p EXCEPT !.decl.margin[4 - i] = Some([number |-> d.number, unit |-> d.unit])]

\* |self.decl.margin[i] = Some(Dimension::from_str(s))|; panicked is set when
\* the index is out of bounds or Dimension::from_str panics
set_margin(p, i, s) ==
    LET d == Dimension_from_str(s)
    IN IF p.panicked THEN p
       ELSE IF d.panic \/ i >= 4 THEN [p EXCEPT !.panicked = TRUE]
       ELSE [p EXCEPT !.decl.margin[i + 1] = Some([number |-> d.number, unit |-> d.unit])]

\* the loop of the "margin" arm over value.split_whitespace().enumerate()
RECURSIVE set_margins(_, _, _)
set_margins(p, tokens, i) ==
    IF tokens = <<>> \/ p.panicked THEN p
    ELSE set_margins(set_margin(p, i, Head(tokens)), Tail(tokens), i + 1)

\* the `_` arm with the fault of starting the Declaration afresh
unhandled_attr_resets(p) == [p EXCEPT !.decl = Declaration_default]

\* the `_` arm of the match of parse_attr_value: the property is only logged
unhandled_attr(p) == p

\* the match of parse_attr_value on the property name
resolve(p, attr_name, value) ==
    CASE attr_name = Prop.display
            -> [p EXCEPT !.decl.display = unwrap_or(enum_from_str(DisplayTable, value), "Block")]
      [] attr_name = Prop.position
            -> [p EXCEPT !.decl.position = unwrap_or(enum_from_str(PositionTable, value), "Static")]
      [] attr_name = Prop.color
            -> [p EXCEPT !.decl.color = Srgb_from_str_ok(value)]
      [] attr_name = Prop.background_color
            -> [p EXCEPT !.decl.background_color = Srgb_from_str_ok(value)]
      [] attr_name = Prop.font_family
            -> [p EXCEPT !.decl.font_family = Some(FontFamily_from_str_or_custom(value))]
      [] attr_name = Prop.margin -> set_margins(p, split_whitespace(value), 0)
      [] attr_name = Prop.margin_top -> set_margin(p, 0, value)
      [] attr_name = Prop.margin_right -> set_margin(p, 1, value)
      [] attr_name = Prop.margin_bottom -> set_margin(p, 2, value)
      [] attr_name = Prop.margin_left -> set_margin(p, 3, value)
      [] OTHER -> unhandled_attr(p)

\* the match on self.mode with the fault of substituting in every mode
mode_value_always(m, value) == replace_browser_keyword(value)

\* the match of parse_attr_value on self.mode: the value that is resolved
mode_value(m, value) ==
    IF m = "DefaultCss" THEN replace_browser_keyword(value) ELSE value

\* CssParser::parse_attr_value
parse_attr_value(p, value) ==
    IF p.attr_name = None THEN [p EXCEPT !.panicked = TRUE]
    ELSE resolve(p, p.attr_name[1], mode_value(p.mode, value))

\* CssParser::eof
eof(p) == p.pos >= Len(p.input)

\* CssParser::peek.  The input of a parser is the output of the preprocessing
\* pass, which panics on every text with a multi-byte character: the input is
\* ASCII and byte offset pos is the offset of character pos + 1.
peek(p) == p.input[p.pos + 1]

\* CssParser::consume: pos moves to the next character, by 1 at the last one
consume(p) ==
    LET next_pos == IF p.pos + 1 < Len(p.input) THEN Width(peek(p)) ELSE 1
    IN [p EXCEPT !.pos = @ + next_pos]

\* the characters of a name token
is_name_char(c) ==
    c \in Range(LowerLetters) \cup Range(UpperLetters) \cup Digits \cup {"-", "_"}

\* is_run_char with the fault of ending a run at a closing brace too
is_run_char_brace(c) == c # ";" /\ c # ":" /\ c # "}"

\* the characters of a property name or value run
is_run_char(c) == c # ";" /\ c # ":"

\* the closure handed to consume_while: "name" by consume_name, "run" by
\* the default arm of advance inside braces
test(kind, c) == IF kind = "name" THEN is_name_char(c) ELSE is_run_char(c)

\* at most n iterations of the loop of CssParser::consume_while on the
\* parser st.p and the string st.s
RECURSIVE consume_steps(_, _, _)
consume_steps(st, kind, n) ==
    IF eof(st.p) \/ ~test(kind, peek(st.p)) \/ n = 0 THEN st
    ELSE IF n = 1 THEN [p |-> consume(st.p), s |-> Append(st.s, peek(st.p))]
    ELSE consume_steps(consume_steps(st, kind, n \div 2), kind, n - n \div 2)

\* CssParser::consume_while: the parser after the run and the run consumed
RECURSIVE consume_while(_, _, _)
consume_while(p, kind, s) ==
    IF ~eof(p) /\ test(kind, peek(p))
    THEN LET st == consume_steps([p |-> p, s |-> s], kind, Len(p.input))
         IN consume_while(st.p, kind, st.s)
    ELSE [p |-> p, s |-> s]

\* CssParser::consume_name
consume_name(p) == consume_while(p, "name", <<>>)

\* a subtraction that does not saturate
plain_sub(a, b) == a - b

\* usize::saturating_sub
saturating_sub(a, b) == IF a >= b THEN a - b ELSE 0

\* the check of the '}' arm with the fault of leaving the selector pending
\* after the commit
commit_keeps_selector(p) ==
    IF p.decl_brace_level # None /\ p.decl_brace_level[1] = p.brace_level
    THEN IF p.selector = None THEN [p EXCEPT !.panicked = TRUE]
         ELSE [p EXCEPT !.style = add_rule(@, p.selector[1], p.decl),
                        !.decl_brace_level = None]
    ELSE p

\* the check of the '}' arm: commit the rule when its list has been closed
commit_if_closed(p) ==
    IF p.decl_brace_level # None /\ p.decl_brace_level[1] = p.brace_level
    THEN IF p.selector = None THEN [p EXCEPT !.panicked = TRUE]
         ELSE [p EXCEPT !.style = add_rule(@, p.selector[1], p.decl),
                        !.decl_brace_level = None,
                        !.selector = None]
    ELSE p

\* the selector arm with the fault of consuming nothing after an empty name
advance_selector_stuck(p) ==
    LET r == consume_name(p)
    IN IF r.s = <<>> THEN r.p
       ELSE [r.p EXCEPT !.selector = Some(r.s),
                        !.decl_brace_level = Some(r.p.brace_level)]

\* the selector arm with the fault of keeping a selector that is pending
advance_selector_first(p) ==
    LET r == consume_name(p)
    IN IF r.s = <<>> THEN consume(r.p)
       ELSE IF r.p.selector # None THEN r.p
       ELSE [r.p EXCEPT !.selector = Some(r.s),
                        !.decl_brace_level = Some(r.p.brace_level)]

\* the default arm of advance at brace level 0: a selector
advance_selector(p) ==
    LET r == consume_name(p)
    IN IF r.s = <<>> THEN consume(r.p)
       ELSE [r.p EXCEPT !.selector = Some(r.s),
                        !.decl_brace_level = Some(r.p.brace_level)]

\* the default arm of advance inside braces: a property name or value
advance_attr(p) ==
    LET r == consume_while(p, "run", <<>>)
    IN IF r.s = <<>> THEN consume(r.p)
       ELSE IF r.p.brace_level = 1 /\ r.p.attr_name = None
            THEN [r.p EXCEPT !.attr_name = Some(r.s)]
       ELSE IF r.p.brace_level = 1
            THEN LET q == parse_attr_value(r.p, r.s)
                 IN IF q.panicked THEN q ELSE [q EXCEPT !.attr_name = None]
       ELSE r.p

\* CssParser::advance
advance(p) ==
    LET c == peek(p)
    IN CASE c = "{" -> [consume(p) EXCEPT !.brace_level = @ + 1]
         [] c = "}" -> commit_if_closed(
                           [consume(p) EXCEPT !.brace_level = saturating_sub(@, 1)])
         [] c = " " -> consume(p)
         [] OTHER -> IF p.brace_level = 0 THEN advance_selector(p)
                     ELSE advance_attr(p)

\* the return of parse with the fault of committing the rule still open at
\* the end of input
parse_return_flush(p) ==
    IF p.selector # None THEN add_rule(p.style, p.selector[1], p.decl) ELSE p.style

\* what CssParser::parse returns at the end of input: self.style.clone()
parse_return(p) == p.style

\* at most n iterations of the loop of CssParser::parse from parser state p,
\* ending at a panic and at the end of input
RECURSIVE parse_steps(_, _)
parse_steps(p, n) ==
    IF p.panicked \/ eof(p) \/ n = 0 THEN p
    ELSE IF n = 1 THEN advance(p)
    ELSE parse_steps(parse_steps(p, n \div 2), n - n \div 2)

\* CssParser::parse: the loop from parser state p to the end of input
RECURSIVE parse(_)
parse(p) ==
    IF p.panicked THEN PanicResult
    ELSE IF eof(p) THEN Returned(parse_return(p))
    ELSE parse(parse_steps(p, Len(p.input)))

\* GlobalStyle::from_css
from_css(text, m) ==
    LET input == remove_comments_and_extra_whitespace(text)
    IN IF input.panic THEN PanicResult
       ELSE parse(CssParser_new(input.out, m))

\* the `continue` of parse_inline with the fault of starting the Declaration
\* afresh at an empty piece
skipped_attr_resets(p) == [p EXCEPT !.decl = Declaration_default]

\* the `continue` of parse_inline: a piece with no key and no value is skipped
skipped_attr(p) == p

\* the body of the loop of parse_inline for one piece of inline.split(';')
inline_attr(p, attr) ==
    LET parts == split(attr, ":")
        key == trim(parts[1])
        value == trim(IF Len(parts) >= 2 THEN parts[2] ELSE <<>>)
    IN IF key = <<>> /\ value = <<>> THEN skipped_attr(p)
       ELSE parse_attr_value([p EXCEPT !.attr_name = Some(key)], value)

\* the loop of parse_inline over the pieces left
RECURSIVE inline_loop(_, _)
inline_loop(p, rest) ==
    IF p.panicked THEN PanicResult
    ELSE IF rest = <<>> THEN Returned(p.decl)
    ELSE inline_loop(inline_attr(p, Head(rest)), Tail(rest))

\* CssParser::parse_inline, Declaration::from_inline
parse_inline(text) == inline_loop(CssParser_new(<<>>, "Normal"), split(text, ";"))

-----------------------------------------------------------------------------
(* Inputs *)

\* the sequences over A of length at most n
RECURSIVE SeqsUpTo(_, _)
SeqsUpTo(A, n) ==
    IF n = 0 THEN {<<>>}
    ELSE LET shorter == SeqsUpTo(A, n - 1)
         IN shorter \cup {Append(s, c) : s \in {t \in shorter : Len(t) = n - 1}, c \in A}

\* the characters of the raw texts drawn for the preprocessing pass
NormAlphabet == {"a", " ", "\n", "/", "*", Eacute}

NormInputs == SeqsUpTo(NormAlphabet, MaxNormLen)

\* p{color:red;}
RuleP ==
    <<"p", "{", "c", "o", "l", "o", "r", ":", "r", "e", "d", ";", "}">>

\* div { display: flex; }
RuleDiv ==
    <<"d", "i", "v", " ", "{", " ", "d", "i", "s", "p", "l", "a", "y", ":",
      " ", "f", "l", "e", "x", ";", " ", "}">>

\* h1{margin:1px 2px;}
RuleH1 ==
    <<"h", "1", "{", "m", "a", "r", "g", "i", "n", ":", "1", "p", "x", " ",
      "2", "p", "x", ";", "}">>

\* q{position:fixed; with no closing brace
UnclosedQ ==
    <<"q", "{", "p", "o", "s", "i", "t", "i", "o", "n", ":", "f", "i", "x",
      "e", "d", ";">>

\* /*c*/
CommentC ==
    <<"/", "*", "c", "*", "/">>

\* well-formed rules `name { property: value; ... }`
RuleFragments == {RuleP, RuleDiv, RuleH1}

\* rules whose opening brace is never closed
UnclosedFragments == {UnclosedQ}

\* a closing brace
CloseBrace == <<"}">>

\* the fragments stylesheet texts are assembled from
CssFragments ==
    RuleFragments \cup UnclosedFragments
    \cup {CloseBrace, CommentC, <<"{">>, <<" ">>, <<",">>, <<";">>, <<"x">>, <<"/">>}

CssInputs == SeqsUpTo(CssFragments, MaxFragments)

Modes == {"Normal", "DefaultCss"}

\* color: blue
AttrColorBlue ==
    <<"c", "o", "l", "o", "r", ":", " ", "b", "l", "u", "e">>

\*  color: red
AttrColorRed ==
    <<" ", "c", "o", "l", "o", "r", ":", " ", "r", "e", "d">>

\* display: flex
AttrDisplayFlex ==
    <<"d", "i", "s", "p", "l", "a", "y", ":", " ", "f", "l", "e", "x">>

\* margin: 1px 2px
AttrMargin2 ==
    <<"m", "a", "r", "g", "i", "n", ":", " ", "1", "p", "x", " ", "2", "p",
      "x">>

\* margin: 3em
AttrMargin1 ==
    <<"m", "a", "r", "g", "i", "n", ":", " ", "3", "e", "m">>

\* flibber: 3
AttrFlibber ==
    <<"f", "l", "i", "b", "b", "e", "r", ":", " ", "3">>

\* Color: red
AttrUpperColor ==
    <<"C", "o", "l", "o", "r", ":", " ", "r", "e", "d">>

\* pieces whose property name is not in the resolver table
UnknownAttrs == {AttrFlibber, AttrUpperColor}

\* a piece with an empty key and an empty value: ` : `
AttrBlank == <<" ", ":", " ">>

\* pieces with no key and no value
EmptyAttrs == {<<>>, AttrBlank}

\* the `property: value` pieces inline texts are assembled from
InlineFragments ==
    {AttrColorBlue, AttrColorRed, AttrDisplayFlex, AttrMargin2, AttrMargin1}
    \cup EmptyAttrs \cup UnknownAttrs

InlineInputs == SeqsUpTo(InlineFragments, MaxInlineAttrs)

\* the inline text of a sequence of pieces: each piece followed by `;`
RECURSIVE InlineText(_)
InlineText(pieces) ==
    IF pieces = <<>> THEN <<>>
    ELSE Head(pieces) \o <<";">> \o InlineText(Tail(pieces))

-----------------------------------------------------------------------------
(* State machines *)

\* no call has built a parser yet
NoParser == CssParser_new(<<>>, "Normal")

NoResult == Returned(<<>>)

(* remove_comments_and_extra_whitespace, applied twice *)

NormInit ==
    /\ css \in NormInputs
    /\ mode = "Normal"
    /\ inline = <<>>
    /\ src = <<>>
    /\ parser = NoParser
    /\ attrs = <<>>
    /\ pc = "norm0"
    /\ steps = 0
    /\ out1 = NoResult
    /\ out2 = NoResult
    /\ ret = NoResult
    /\ LayoutIdle
    /\ HostIdle

\* normalize(css)
NormalizeOnce ==
    /\ pc = "norm0"
    /\ out1' = remove_comments_and_extra_whitespace(css)
    /\ pc' = IF out1'.panic THEN "panicked" ELSE "norm1"
    /\ UNCHANGED <<css, mode, inline, src, parser, attrs, steps, out2, ret>>
    /\ UNCHANGED layoutVars
    /\ UNCHANGED hostVars

\* normalize(normalize(css))
NormalizeTwice ==
    /\ pc = "norm1"
    /\ out2' = remove_comments_and_extra_whitespace(out1.out)
    /\ pc' = IF out2'.panic THEN "panicked" ELSE "norm2"
    /\ UNCHANGED <<css, mode, inline, src, parser, attrs, steps, out1, ret>>
    /\ UNCHANGED layoutVars
    /\ UNCHANGED hostVars

NormNext == NormalizeOnce \/ NormalizeTwice

SpecNorm == NormInit /\ [][NormNext]_vars

(* GlobalStyle::from_css *)

Init ==
    /\ src \in CssInputs
    /\ css = Concat(src)
    /\ mode \in Modes
    /\ inline = <<>>
    /\ parser = NoParser
    /\ attrs = <<>>
    /\ pc = "start"
    /\ steps = 0
    /\ out1 = NoResult
    /\ out2 = NoResult
    /\ ret = NoResult
    /\ LayoutIdle
    /\ HostIdle

\* CssParser::new: the preprocessing pass, then the parser's initial fields
New ==
    /\ pc = "start"
    /\ out1' = remove_comments_and_extra_whitespace(css)
    /\ IF out1'.panic
       THEN pc' = "panicked" /\ UNCHANGED parser
       ELSE pc' = "parsing" /\ parser' = CssParser_new(out1'.out, mode)
    /\ UNCHANGED <<css, mode, inline, src, attrs, steps, out2, ret>>
    /\ UNCHANGED layoutVars
    /\ UNCHANGED hostVars

\* one iteration of the loop of CssParser::parse
Advance ==
    /\ pc = "parsing"
    /\ ~eof(parser)
    /\ parser' = advance(parser)
    /\ steps' = steps + 1
    /\ pc' = IF parser'.panicked THEN "panicked" ELSE "parsing"
    /\ UNCHANGED <<css, mode, inline, src, attrs, out1, out2, ret>>
    /\ UNCHANGED layoutVars
    /\ UNCHANGED hostVars

\* the loop of CssParser::parse ends: parse returns self.style.clone()
Return ==
    /\ pc = "parsing"
    /\ eof(parser)
    /\ pc' = "done"
    /\ ret' = Returned(parse_return(parser))
    /\ UNCHANGED <<css, mode, inline, src, parser, attrs, steps, out1, out2>>
    /\ UNCHANGED layoutVars
    /\ UNCHANGED hostVars

Next == New \/ Advance \/ Return

Spec == Init /\ [][Next]_vars

(* Declaration::from_inline *)

InlineInit ==
    /\ src \in InlineInputs
    /\ inline = InlineText(src)
    /\ css = <<>>
    /\ mode = "Normal"
    /\ parser = NoParser
    /\ attrs = <<>>
    /\ pc = "start"
    /\ steps = 0
    /\ out1 = NoResult
    /\ out2 = NoResult
    /\ ret = NoResult
    /\ LayoutIdle
    /\ HostIdle

\* parse_inline: CssParser::new("", Normal) and inline.split(';')
InlineNew ==
    /\ pc = "start"
    /\ out1' = remove_comments_and_extra_whitespace(<<>>)
    /\ parser' = CssParser_new(out1'.out, "Normal")
    /\ attrs' = split(inline, ";")
    /\ pc' = "attrs"
    /\ UNCHANGED <<css, mode, inline, src, steps, out2, ret>>
    /\ UNCHANGED layoutVars
    /\ UNCHANGED hostVars

\* one iteration of the loop of parse_inline
InlineAttr ==
    /\ pc = "attrs"
    /\ attrs # <<>>
    /\ parser' = inline_attr(parser, Head(attrs))
    /\ attrs' = Tail(attrs)
    /\ pc' = IF parser'.panicked THEN "panicked" ELSE "attrs"
    /\ UNCHANGED <<css, mode, inline, src, steps, out1, out2, ret>>
    /\ UNCHANGED layoutVars
    /\ UNCHANGED hostVars

\* the loop of parse_inline ends: parse_inline returns parser.decl
InlineReturn ==
    /\ pc = "attrs"
    /\ attrs = <<>>
    /\ pc' = "done"
    /\ ret' = Returned(parser.decl)
    /\ UNCHANGED <<css, mode, inline, src, parser, attrs, steps, out1, out2>>
    /\ UNCHANGED layoutVars
    /\ UNCHANGED hostVars

InlineNext == InlineNew \/ InlineAttr \/ InlineReturn

SpecInline == InlineInit /\ [][InlineNext]_vars


(* One property through GlobalStyle::from_css and Declaration::from_inline *)

\* red
ValRed == <<"r", "e", "d">>

\* flex
ValFlex == <<"f", "l", "e", "x">>

\* fixed
ValFixed == <<"f", "i", "x", "e", "d">>

\* serif
ValSerif == <<"s", "e", "r", "i", "f">>

\* a  b (two spaces)
ValTwoWords == <<"a", " ", " ", "b">>

\* 1px 2px
ValTwoMargins == <<"1", "p", "x", " ", "2", "p", "x">>

\* the property names of the texts: handled names, one followed by a space
\* and one unknown
AgreeNames ==
    {Prop.color, Prop.display, Prop.position, Prop.font_family, Prop.margin,
     Prop.display \o <<" ">>, <<"f", "l", "i", "b", "b", "e", "r">>}

\* the values of the texts, bare and after a space, and one before a space
AgreeValues ==
    LET bare == {ValRed, ValFlex, ValFixed, ValSerif, ValTwoWords, ValTwoMargins}
    IN bare \cup {<<" ">> \o v : v \in bare} \cup {ValFlex \o <<" ">>}

\* the text `property:value;`
PropertyText(name, value) == name \o <<":">> \o value \o <<";">>

\* a stylesheet of the single rule p whose body is text
SingleRule(text) == <<"p", "{">> \o text \o <<"}">>

AgreeInit ==
    /\ src \in AgreeNames \X AgreeValues
    /\ inline = PropertyText(src[1], src[2])
    /\ css = SingleRule(inline)
    /\ mode = "Normal"
    /\ parser = NoParser
    /\ attrs = <<>>
    /\ pc = "start"
    /\ steps = 0
    /\ out1 = NoResult
    /\ out2 = NoResult
    /\ ret = NoResult
    /\ LayoutIdle
    /\ HostIdle

\* Declaration::from_inline on the body of the rule, once from_css returned
AgreeInline ==
    /\ pc = "done"
    /\ out2' = parse_inline(inline)
    /\ pc' = "compared"
    /\ UNCHANGED <<css, mode, inline, src, parser, attrs, steps, out1, ret>>
    /\ UNCHANGED layoutVars
    /\ UNCHANGED hostVars

AgreeNext == New \/ Advance \/ Return \/ AgreeInline

SpecAgree == AgreeInit /\ [][AgreeNext]_vars

(* CssParser::parse_attr_value on one property, from a Declaration in progress *)

\* bogus: no keyword of any property
ValBogus == <<"b", "o", "g", "u", "s">>

\* DfTextColor
ValDfTextColor == <<"D", "f", "T", "e", "x", "t", "C", "o", "l", "o", "r">>

\* DfLinkColor
ValDfLinkColor == <<"D", "f", "L", "i", "n", "k", "C", "o", "l", "o", "r">>

\* the theme keywords of the model's values
ThemeKeywords == {ValDfTextColor, ValDfLinkColor}

\* the tokens of the margin values: 1px 2em 3in 4ex 5px
MarginTokens ==
    << <<"1", "p", "x">>, <<"2", "e", "m">>, <<"3", "i", "n">>,
       <<"4", "e", "x">>, <<"5", "p", "x">> >>

\* tokens joined by single spaces
RECURSIVE JoinWs(_)
JoinWs(tokens) ==
    IF tokens = <<>> THEN <<>>
    ELSE IF Len(tokens) = 1 THEN tokens[1]
    ELSE tokens[1] \o <<" ">> \o JoinWs(Tail(tokens))

\* the margin value of the first k tokens
MarginValue(k) == JoinWs(SubSeq(MarginTokens, 1, k))

\* the property names handed to the resolver: the handled ones and one more
ResolveNames ==
    {Prop.display, Prop.position, Prop.color, Prop.background_color,
     Prop.font_family, Prop.margin, Prop.margin_top, Prop.margin_right,
     Prop.margin_bottom, Prop.margin_left, <<"f", "l", "i", "b", "b", "e", "r">>}

\* the values handed to the resolver
ResolveValues ==
    {ValRed, ValFlex, ValFixed, ValSerif, ValBogus}
    \cup ThemeKeywords
    \cup {MarginValue(k) : k \in 0..Len(MarginTokens)}

\* a Declaration with every field set to a non-default value
FullDecl ==
    [display |-> "Grid",
     position |-> "Sticky",
     color |-> Some(<<"p", "u", "r", "p", "l", "e">>),
     background_color |-> Some(<<"w", "h", "i", "t", "e">>),
     font_family |-> Some([family |-> "Monospace", name |-> <<>>]),
     margin |-> [i \in 1..4 |-> Some([number |-> 9 * NumScale, unit |-> Absolute(9 * NumScale)])]]

\* the Declarations a property is resolved into
PriorDecls == {Declaration_default, FullDecl}

ResolveInit ==
    /\ src \in ResolveNames \X ResolveValues
    /\ mode \in Modes
    /\ \E d \in PriorDecls :
           parser = [CssParser_new(<<>>, mode) EXCEPT !.decl = d, !.attr_name = Some(src[1])]
    /\ inline = PropertyText(src[1], src[2])
    /\ css = SingleRule(inline)
    /\ attrs = <<>>
    /\ pc = "resolve0"
    /\ steps = 0
    /\ out1 = NoResult
    /\ out2 = NoResult
    /\ ret = NoResult
    /\ LayoutIdle
    /\ HostIdle

\* self.parse_attr_value(value) with self.attr_name the property name
Resolve ==
    /\ pc = "resolve0"
    /\ parser' = parse_attr_value(parser, src[2])
    /\ pc' = IF parser'.panicked THEN "panicked" ELSE "resolved"
    /\ UNCHANGED <<css, mode, inline, src, attrs, steps, out1, out2, ret>>
    /\ UNCHANGED layoutVars
    /\ UNCHANGED hostVars

\* GlobalStyle::from_css, in the same mode, on the rule p of the property
ResolveSheet ==
    /\ pc = "resolved"
    /\ out1' = from_css(css, mode)
    /\ pc' = "sheet"
    /\ UNCHANGED <<css, mode, inline, src, parser, attrs, steps, out2, ret>>
    /\ UNCHANGED layoutVars
    /\ UNCHANGED hostVars

\* Declaration::from_inline on the property
ResolveInline ==
    /\ pc = "sheet"
    /\ out2' = parse_inline(inline)
    /\ pc' = "inlined"
    /\ UNCHANGED <<css, mode, inline, src, parser, attrs, steps, out1, ret>>
    /\ UNCHANGED layoutVars
    /\ UNCHANGED hostVars

ResolveNext == Resolve \/ ResolveSheet \/ ResolveInline

SpecResolve == ResolveInit /\ [][ResolveNext]_vars

(* Dimension::from_str on one text *)

\* longest text handed to Dimension::from_str
MaxDimLen == 4

\* the characters of the texts: a digit, the dot, the letters of the units
\* px, em, ex, in and a two-byte letter
DimAlphabet == {"1", ".", "p", "x", "e", "m", "i", "n", Eacute}

DimInputs == SeqsUpTo(DimAlphabet, MaxDimLen)

DimInit ==
    /\ css \in DimInputs
    /\ mode = "Normal"
    /\ inline = <<>>
    /\ src = <<>>
    /\ parser = NoParser
    /\ attrs = <<>>
    /\ pc = "dim0"
    /\ steps = 0
    /\ out1 = NoResult
    /\ out2 = NoResult
    /\ ret = NoResult
    /\ LayoutIdle
    /\ HostIdle

\* Dimension::from_str(css)
DimParse ==
    /\ pc = "dim0"
    /\ LET d == Dimension_from_str(css)
       IN IF d.panic
          THEN pc' = "panicked" /\ UNCHANGED ret
          ELSE pc' = "dim1" /\ ret' = Returned([number |-> d.number, unit |-> d.unit])
    /\ UNCHANGED <<css, mode, inline, src, parser, attrs, steps, out1, out2>>
    /\ UNCHANGED layoutVars
    /\ UNCHANGED hostVars

DimNext == DimParse

SpecDimension == DimInit /\ [][DimNext]_vars
-----------------------------------------------------------------------------
(* Helpers of the claims: what a text says, read off the text itself *)

\* the characters of s before the first c
RECURSIVE TakeUntil(_, _)
TakeUntil(s, c) ==
    IF s = <<>> \/ Head(s) = c THEN <<>> ELSE <<Head(s)>> \o TakeUntil(Tail(s), c)

\* the name a rule fragment opens with
RuleName(f) == trim(TakeUntil(f, "{"))

\* the whitespace between rules
Blank == {<<" ">>}

\* a stylesheet made of well-formed rules
IsSheet(fs) == \A i \in DOMAIN fs : fs[i] \in RuleFragments \cup Blank

\* a stylesheet made of well-formed rules and comments
IsCommentedSheet(fs) ==
    \A i \in DOMAIN fs : fs[i] \in RuleFragments \cup Blank \cup {CommentC}

\* the rules of a stylesheet, in source order
RulesOf(fs) == SelectSeq(fs, LAMBDA f : f \in RuleFragments)

\* whether property name occurs in text at the start of a name token
HasProp(text, name) ==
    \E i \in 1..(Len(text) - Len(name) + 1) :
        /\ SubSeq(text, i, i + Len(name) - 1) = name
        /\ i = 1 \/ ~is_name_char(text[i - 1])

\* decl has non-default values only for properties that occur in block
OnlyOwnProperties(decl, block) ==
    /\ decl.display # Declaration_default.display => HasProp(block, Prop.display)
    /\ decl.position # Declaration_default.position => HasProp(block, Prop.position)
    /\ decl.color # None => HasProp(block, Prop.color)
    /\ decl.background_color # None => HasProp(block, Prop.background_color)
    /\ decl.font_family # None => HasProp(block, Prop.font_family)
    /\ decl.margin # Declaration_default.margin => HasProp(block, Prop.margin)

\* two results of calls agree: both panicked, or both returned the same value
SameResult(a, b) == a.panic = b.panic /\ (~a.panic => a.out = b.out)

\* text holds a complete block comment
HasBlockComment(text) ==
    \E i, j \in DOMAIN text :
        /\ i + 2 <= j /\ j + 1 <= Len(text)
        /\ text[i] = "/" /\ text[i + 1] = "*"
        /\ text[j] = "*" /\ text[j + 1] = "/"

\* text holds two adjacent whitespace characters
HasAdjacentWhitespace(text) ==
    \E i \in DOMAIN text :
        i + 1 <= Len(text) /\ is_whitespace(text[i]) /\ is_whitespace(text[i + 1])

-----------------------------------------------------------------------------
(* Claims *)

\* C1: stylesheet parsing is total: from_css returns a value on every input
\* text and never panics.
C1_ParsingIsTotal == pc # "panicked"

\* C2: in a stylesheet of several rules the Declaration committed for a rule
\* has non-default values only for the properties of that rule's own block.
C2_OnlyOwnProperties ==
    (pc = "done" /\ IsSheet(src) /\ Len(ret.out.rules) = Len(RulesOf(src))) =>
        \A i \in DOMAIN ret.out.rules :
            OnlyOwnProperties(ret.out.rules[i][2], RulesOf(src)[i])

\* C3: a stylesheet of n well-formed rules (comments and whitespace between
\* them or not) yields exactly n rules, in source order, whose selectors are
\* the n names: no deduplication, no reordering.
C3_RulesInSourceOrder ==
    (pc = "done" /\ IsCommentedSheet(src)) =>
        /\ Len(ret.out.rules) = Len(RulesOf(src))
        /\ \A i \in DOMAIN ret.out.rules :
               ret.out.rules[i][1] = RuleName(RulesOf(src)[i])

\* three rules, the first and the last with the same selector, were parsed
C3_Witness ==
    /\ pc = "done"
    /\ IsSheet(src)
    /\ Len(RulesOf(src)) = 3
    /\ RuleName(src[1]) = RuleName(src[3])
    /\ RuleName(src[1]) # RuleName(src[2])
    /\ Len(ret.out.rules) = 3

\* C4: the preprocessing pass is idempotent: when normalize(s) and
\* normalize(normalize(s)) have returned, they are the same text.
C4_Idempotent == pc = "norm2" => out2.out = out1.out

\* C5: the output of the preprocessing pass holds no block comment and no two
\* adjacent whitespace characters, and its only whitespace character is the
\* space.
C5_NoCommentNoWhitespaceRun ==
    pc \in {"norm1", "norm2"} =>
        /\ ~HasBlockComment(out1.out)
        /\ ~HasAdjacentWhitespace(out1.out)
        /\ \A i \in DOMAIN out1.out : is_whitespace(out1.out[i]) => out1.out[i] = " "

\* a stylesheet of complete rules followed by extra closing braces
ExtraBraces(fs) ==
    /\ \E i \in DOMAIN fs : fs[i] = CloseBrace
    /\ \E k \in 0..Len(fs) :
           /\ IsSheet(SubSeq(fs, 1, k))
           /\ \A i \in (k + 1)..Len(fs) : fs[i] \in {CloseBrace} \cup Blank

\* a text without its closing-brace fragments
WithoutBraces(fs) == SelectSeq(fs, LAMBDA f : f # CloseBrace)

\* C6: the brace depth never goes below zero, a closing brace at depth 0
\* leaves the depth at 0 and parsing continues, and a stylesheet of complete
\* rules followed by extra closing braces yields the rules of the stylesheet
\* alone.
C6_BraceDepthRobust ==
    /\ [](parser.brace_level >= 0)
    /\ [][(pc = "parsing" /\ ~eof(parser) /\ peek(parser) = "}"
             /\ parser.brace_level = 0)
          => (parser'.brace_level = 0 /\ pc' = "parsing")]_vars
    /\ []((pc = "done" /\ ExtraBraces(src)) =>
              SameResult(ret, from_css(Concat(WithoutBraces(src)), mode)))

\* a rule followed by two extra closing braces was parsed and kept its rule
C6_Witness ==
    /\ pc = "done"
    /\ Len(src) = 3
    /\ src[1] \in RuleFragments
    /\ src[2] = CloseBrace
    /\ src[3] = CloseBrace
    /\ parser.brace_level = 0
    /\ Len(ret.out.rules) = 1

\* where the first unclosed rule of a text stands, 0 when there is none
FirstUnclosed(fs) ==
    IF \E i \in DOMAIN fs : fs[i] \in UnclosedFragments
    THEN CHOOSE i \in DOMAIN fs :
             /\ fs[i] \in UnclosedFragments
             /\ \A j \in 1..(i - 1) : fs[j] \notin UnclosedFragments
    ELSE 0

\* complete rules, then a rule whose opening brace no closing brace follows
EndsUnclosed(fs) ==
    LET k == FirstUnclosed(fs)
    IN /\ k > 0
       /\ IsSheet(SubSeq(fs, 1, k - 1))
       /\ \A i \in k..Len(fs) : \A j \in DOMAIN fs[i] : fs[i][j] # "}"

\* C7: a rule whose opening brace is not matched by a closing brace before
\* the end of the input is never committed: the stylesheet returned holds the
\* rules before it and no rule of its name, and its partial Declaration is
\* dropped.  A rule is committed only by the closing brace that brings the
\* depth back to the one recorded for its selector, and the end of input
\* commits nothing.
C7_UnclosedRuleNotCommitted ==
    /\ []((pc = "done" /\ EndsUnclosed(src)) =>
              /\ SameResult(ret, from_css(Concat(SubSeq(src, 1, FirstUnclosed(src) - 1)), mode))
              /\ \A i \in DOMAIN ret.out.rules :
                     ret.out.rules[i][1] # RuleName(src[FirstUnclosed(src)]))
    /\ [][(pc = "parsing" /\ parser'.style # parser.style) =>
              (/\ peek(parser) = "}"
               /\ parser.decl_brace_level = Some(parser'.brace_level)
               /\ parser'.style.rules =
                      Append(parser.style.rules, <<parser.selector[1], parser.decl>>))]_vars
    /\ [](pc = "done" => ret.out = parser.style)

\* the scan ended with rule q open and its position resolved, after one
\* committed rule
C7_Witness ==
    /\ pc = "done"
    /\ EndsUnclosed(src)
    /\ FirstUnclosed(src) = 2
    /\ parser.selector = Some(<<"q">>)
    /\ parser.decl.position = "Fixed"
    /\ Len(ret.out.rules) = 1

\* C8: every call of advance moves the scan position forward by at least one
\* character, also when the consumed name or run is empty, so parse reaches
\* the end of input after at most as many calls as the input has characters.
C8_ScanTerminates ==
    /\ [][steps' = steps + 1 => parser'.pos > parser.pos]_vars
    /\ [](steps <= parser.pos /\ parser.pos <= Len(parser.input))
    /\ [](pc = "done" => (eof(parser) /\ steps <= Len(parser.input)))

\* advance has just consumed `,` at brace level 0 (an empty name) and, in an
\* earlier call, `;` inside braces (an empty run)
C8_Witness ==
    /\ pc = "parsing"
    /\ parser.pos > 1
    /\ parser.input[parser.pos] = ","
    /\ parser.brace_level = 0
    /\ \E i \in 1..(parser.pos - 1) : parser.input[i] = ";"

\* the property name of a `property: value` piece
KeyOf(piece) == trim(TakeUntil(piece, ":"))

\* the pieces of an inline text whose property name the resolver handles
KnownOnly(pieces) == SelectSeq(pieces, LAMBDA a : a \notin UnknownAttrs)

\* C9: an unknown property name is a no-op: resolving it leaves every field
\* of the Declaration unchanged, so an inline text yields the Declaration of
\* the text with its unknown properties removed.
C9_UnknownPropertyNoOp ==
    /\ [][(pc = "attrs" /\ attrs # <<>> /\ Head(attrs) \in UnknownAttrs)
          => (parser'.decl = parser.decl /\ pc' = "attrs")]_vars
    /\ [](pc = "done" => SameResult(ret, parse_inline(InlineText(KnownOnly(src)))))

\* an inline text with a known property before and after an unknown one was
\* parsed
C9_Witness ==
    /\ pc = "done"
    /\ Len(src) = 3
    /\ src[1] \notin UnknownAttrs \cup {<<>>}
    /\ src[2] \in UnknownAttrs
    /\ src[3] \notin UnknownAttrs \cup {<<>>}
    /\ ret.out # Declaration_default

\* the pieces of an inline text that are the last with their property name
LastOccurrences(pieces) ==
    LET keep == {i \in DOMAIN pieces :
                    \A j \in (i + 1)..Len(pieces) : KeyOf(pieces[j]) # KeyOf(pieces[i])}
        RECURSIVE pick(_)
        pick(i) == IF i > Len(pieces) THEN <<>>
                   ELSE (IF i \in keep THEN <<pieces[i]>> ELSE <<>>) \o pick(i + 1)
    IN pick(1)

\* C10: duplicate properties of an inline style are later-wins: the
\* Declaration is the one obtained from the last occurrence of each property
\* alone, for every handled property, the margin shorthand included.
C10_LaterWins ==
    pc = "done" => SameResult(ret, parse_inline(InlineText(LastOccurrences(src))))

\* how a call of parse_inline ended: its Declaration, or a panic
InlineOutcome == IF pc = "panicked" THEN PanicResult ELSE ret

\* a text without its last character
DropLast(text) == SubSeq(text, 1, Len(text) - 1)

\* C11: the trailing semicolon of an inline style is optional: from_inline of
\* a text, of the text without its last `;` and of the text followed by one
\* more `;` end the same way, and a piece with an empty key and an empty
\* value is skipped: it changes nothing in the parser.
C11_TrailingSemicolonOptional ==
    /\ []((pc \in {"done", "panicked"} /\ inline # <<>>) =>
              SameResult(InlineOutcome, parse_inline(DropLast(inline))))
    /\ [](pc \in {"done", "panicked"} =>
              SameResult(InlineOutcome, parse_inline(inline \o <<";">>)))
    /\ [][(pc = "attrs" /\ attrs # <<>> /\ Head(attrs) \in EmptyAttrs)
          => (parser' = parser /\ pc' = "attrs")]_vars

\* an inline text of a property, an empty piece and a property was parsed to
\* a Declaration that has both properties
C11_Witness ==
    /\ pc = "done"
    /\ Len(src) = 3
    /\ src[1] = AttrDisplayFlex
    /\ src[2] \in EmptyAttrs
    /\ src[3] = AttrColorBlue
    /\ ret.out.display = "Flex"
    /\ ret.out.color # None

\* C12: stylesheet and inline parsing agree: for a text `property: value;`,
\* normal-mode stylesheet parsing of the single rule whose body is the text
\* commits one rule, and its Declaration is the one inline parsing returns
\* for the text.
C12_StylesheetAndInlineAgree ==
    pc = "compared" =>
        /\ ~out2.panic
        /\ Len(ret.out.rules) = 1
        /\ ret.out.rules[1][2] = out2.out

\* the Dimension a margin side holds after token s was assigned to it
SideOf(s) ==
    LET d == Dimension_from_str(s)
    IN Some([number |-> d.number, unit |-> d.unit])

\* the fields of a Declaration other than margin
NonMargin(d) == <<d.display, d.position, d.color, d.background_color, d.font_family>>

\* where margin-top, -right, -bottom and -left stand in Declaration.margin
SideIndex ==
    { <<Prop.margin_top, 1>>, <<Prop.margin_right, 2>>,
      <<Prop.margin_bottom, 3>>, <<Prop.margin_left, 4>> }

\* C13: the margin shorthand assigns positionally: a value of k tokens,
\* 1 <= k <= 4, sets margin sides 1..k (top, right, bottom, left) to the
\* Dimensions of tokens 1..k and leaves sides k+1..4 as they were;
\* margin-top, -right, -bottom and -left set exactly side 1, 2, 3 and 4.
C13_MarginPositional ==
    /\ [][(pc = "resolve0" /\ src[1] = Prop.margin
             /\ Len(split_whitespace(src[2])) \in 1..4)
          => LET tokens == split_whitespace(src[2])
             IN /\ pc' = "resolved"
                /\ \A i \in 1..4 :
                       parser'.decl.margin[i] =
                           IF i <= Len(tokens) THEN SideOf(tokens[i])
                           ELSE parser.decl.margin[i]
                /\ NonMargin(parser'.decl) = NonMargin(parser.decl)]_vars
    /\ [][(pc = "resolve0" /\ \E e \in SideIndex : e[1] = src[1])
          => LET side == (CHOOSE e \in SideIndex : e[1] = src[1])[2]
             IN /\ pc' = "resolved"
                /\ \A i \in 1..4 :
                       parser'.decl.margin[i] =
                           IF i = side THEN SideOf(src[2]) ELSE parser.decl.margin[i]
                /\ NonMargin(parser'.decl) = NonMargin(parser.decl)]_vars

\* `margin: 1px 2em` was resolved into a Declaration with all sides set: top
\* is 1px, right is 2em, bottom and left are as before
C13_Witness ==
    /\ pc = "resolved"
    /\ src = <<Prop.margin, MarginValue(2)>>
    /\ parser.decl.margin[1] = Some([number |-> NumScale, unit |-> Absolute(NumScale)])
    /\ parser.decl.margin[2] =
           Some([number |-> 2 * NumScale,
                 unit |-> [kind |-> "RelativeToParentFontSize", value |-> 2 * NumScale]])
    /\ parser.decl.margin[3] = FullDecl.margin[3]
    /\ parser.decl.margin[4] = FullDecl.margin[4]

\* C14: a margin shorthand value with more than four tokens does not fail:
\* the call returns, the four sides hold the Dimensions of the first four
\* tokens and the extra tokens are ignored.
C14_ExtraMarginTokensIgnored ==
    (pc \in {"resolved", "panicked"} /\ src[1] = Prop.margin
        /\ Len(split_whitespace(src[2])) > 4) =>
        /\ pc = "resolved"
        /\ \A i \in 1..4 : parser.decl.margin[i] = SideOf(split_whitespace(src[2])[i])

\* value is a keyword of the strum table
IsKeyword(table, value) == \E e \in table : e[1] = value

IsNumberChar(c) == is_numeric(c) \/ c = "."

\* the longest prefix of text made of number characters
RECURSIVE NumericPrefix(_)
NumericPrefix(text) ==
    IF text = <<>> \/ ~IsNumberChar(Head(text)) THEN <<>>
    ELSE <<Head(text)>> \o NumericPrefix(Tail(text))

\* the text after its numeric prefix
UnitSuffix(text) == SubSeq(text, Len(NumericPrefix(text)) + 1, Len(text))

\* a number text is a number: it has a digit and at most one dot
IsNumber(ns) ==
    /\ \E i \in DOMAIN ns : is_numeric(ns[i])
    /\ Cardinality({i \in DOMAIN ns : ns[i] = "."}) <= 1

\* the number part of text cannot be parsed, whether it is read as the
\* numeric prefix of text or as all the number characters of text
NumberUnparseable(text) ==
    /\ ~IsNumber(NumericPrefix(text))
    /\ ~IsNumber(SelectSeq(text, IsNumberChar))

\* C16: a dimension whose number part cannot be parsed yields magnitude 0.0
\* with an Absolute unit, whatever unit suffix the text carries.
C16_UnparseableNumberIsZeroAbsolute ==
    (pc \in {"dim1", "panicked"} /\ NumberUnparseable(css)) =>
        /\ pc = "dim1"
        /\ ret.out = [number |-> 0, unit |-> Absolute(0)]

\* the unit suffix as Unit::from_str matches it: lowercase letters and
\* whitespace only
UnitName(suffix) ==
    SelectSeq(to_lowercase(trim(suffix)), LAMBDA c : is_alphabetic(c) \/ is_whitespace(c))

\* the unit suffixes Unit::from_str recognizes
UnitNames ==
    { <<"p", "x">>, <<"i", "n">>, <<"c", "m">>, <<"m", "m">>, <<"e", "m">>, <<"e", "x">> }

\* C17: for a text with numeric prefix n the number is n, taken from the
\* prefix only; suffix `px` yields Absolute(n), `in` yields Absolute(96 * n),
\* `em` yields RelativeToParentFontSize(n), `ex` yields
\* RelativeToParentFontHeight(n) and an unrecognized suffix yields Absolute(n).
C17_UnitConversion ==
    (pc \in {"dim1", "panicked"} /\ IsNumber(NumericPrefix(css))) =>
        LET n == parse_f32(NumericPrefix(css))[1]
            suffix == UnitSuffix(css)
        IN /\ pc = "dim1"
           /\ ret.out.number = n
           /\ suffix = <<"p", "x">> => ret.out.unit = Absolute(n)
           /\ suffix = <<"i", "n">> => ret.out.unit = Absolute(96 * n)
           /\ suffix = <<"e", "m">> =>
                  ret.out.unit = [kind |-> "RelativeToParentFontSize", value |-> n]
           /\ suffix = <<"e", "x">> =>
                  ret.out.unit = [kind |-> "RelativeToParentFontHeight", value |-> n]
           /\ UnitName(suffix) \notin UnitNames => ret.out.unit = Absolute(n)

\* the literal color keyword of a theme keyword of the model
ThemeLiteral(value) ==
    IF value = ValDfTextColor THEN <<"b", "l", "a", "c", "k">>
    ELSE <<"l", "i", "g", "h", "t", "b", "l", "u", "e">>

\* the color a theme keyword resolves to in a mode: its literal in
\* default-stylesheet mode, none in normal mode
ThemeColor(m, value) == IF m = "DefaultCss" THEN Some(ThemeLiteral(value)) ELSE None

\* C18: theme-keyword substitution is mode-dependent: in default-stylesheet
\* mode a value that is a theme keyword is replaced by its literal color
\* keyword before resolving, so `color` and `background-color` resolve as
\* that color; in normal mode the value is resolved as it stands and the
\* color is unset.  The same holds for the rule a stylesheet commits in each
\* mode, and inline parsing never substitutes.
C18_ThemeKeywordsByMode ==
    /\ [][(pc = "resolve0" /\ src[2] \in ThemeKeywords)
          => /\ pc' = "resolved"
             /\ src[1] = Prop.color =>
                    parser'.decl = [parser.decl EXCEPT !.color = ThemeColor(mode, src[2])]
             /\ src[1] = Prop.background_color =>
                    parser'.decl =
                        [parser.decl EXCEPT !.background_color = ThemeColor(mode, src[2])]
             /\ src[1] = Prop.font_family =>
                    parser'.decl.font_family =
                        Some(Custom(IF mode = "DefaultCss" THEN ThemeLiteral(src[2])
                                    ELSE src[2]))]_vars
    /\ []((pc = "inlined" /\ src[2] \in ThemeKeywords /\ src[1] = Prop.color) =>
              /\ ~out1.panic /\ ~out2.panic
              /\ Len(out1.out.rules) = 1
              /\ out1.out.rules[1][2] =
                     [Declaration_default EXCEPT !.color = ThemeColor(mode, src[2])]
              /\ out2.out = Declaration_default)

\* `color: DfTextColor` was resolved in default-stylesheet mode: the resolver
\* and the stylesheet rule have the color black, the inline style has none
C18_Witness ==
    /\ pc = "inlined"
    /\ mode = "DefaultCss"
    /\ src = <<Prop.color, ValDfTextColor>>
    /\ parser.decl.color = Some(<<"b", "l", "a", "c", "k">>)
    /\ out1.out.rules[1][2].color = Some(<<"b", "l", "a", "c", "k">>)
    /\ out2.out.color = None

-----------------------------------------------------------------------------
(* DOMNode (src/src/dom.rs) *)

\* a HashMap<String, String> with no entry
HashMap_new == <<>>

\* DOMNode::default().  Element names and attribute names are held as
\* strings, texts and attribute values as sequences of characters.
DOMNode_default ==
    [pos |-> <<0, 0>>,
     name |-> "",
     attrs |-> HashMap_new,
     id |-> "",
     style |-> None,
     text |-> <<>>]

\* DOMNode::new
DOMNode_new(name) == [DOMNode_default EXCEPT !.name = name]

\* the loop of DOMNode::set_text from byte i on
RECURSIVE set_text_loop(_, _, _)
set_text_loop(b, i, text) ==
    IF i >= Len(b) THEN Returned(text)
    ELSE LET c == get_char(b, i) IN
         IF c = Panic THEN PanicResult
         ELSE IF i > 0 /\ is_whitespace(c) /\ is_whitespace(get_char(b, i - 1))
              THEN set_text_loop(b, i + 1, text)
         ELSE set_text_loop(b, i + 1, Append(text, IF is_whitespace(c) THEN " " ELSE c))

\* DOMNode::set_text: the new text of the node, or a panic
set_text(text) == set_text_loop(Bytes(text), 0, <<>>)

\* DOMNode::text_node
text_node(text) ==
    LET r == set_text(text)
    IN IF r.panic THEN PanicResult
       ELSE Returned([DOMNode_default EXCEPT !.text = r.out])

\* DOMNode::root
DOMNode_root == [DOMNode_default EXCEPT !.name = "html"]

-----------------------------------------------------------------------------
(* Layout (src/src/layout.rs) *)

\* indextree's Arena::new_node: a node with no parent and no children
new_node(arena, data) ==
    Append(arena, [data |-> data, parent |-> None, children |-> <<>>])

\* indextree's NodeId::append_value: a new node, the last child of parent
append_value(arena, parent, data) ==
    LET id == Len(arena) + 1
    IN [arena |-> [Append(arena, [data |-> data, parent |-> Some(parent), children |-> <<>>])
                      EXCEPT ![parent].children = Append(@, id)],
        id |-> id]

\* Layout::default: an arena whose only node is DOMNode::root()
Layout_default == [arena |-> new_node(<<>>, DOMNode_root), root_id |-> 1]

\* HashMap::insert
HashMap_insert(map, key, value) ==
    [k \in DOMAIN map \cup {key} |-> IF k = key THEN value ELSE map[k]]

\* the loop of handle_element over el.attrs(): the node, or a panic of
\* Declaration::from_inline
RECURSIVE handle_attrs(_, _)
handle_attrs(node, rest) ==
    IF rest = <<>> THEN Returned(node)
    ELSE LET attr == Head(rest)
             inserted == [node EXCEPT !.attrs = HashMap_insert(@, attr[1], attr[2])]
         IN IF attr[1] = "style"
            THEN LET decl == parse_inline(attr[2])
                 IN IF decl.panic THEN PanicResult
                    ELSE handle_attrs([inserted EXCEPT !.style = Some(decl.out)], Tail(rest))
            ELSE handle_attrs(inserted, Tail(rest))

\* Layout::add_node: the layout and the id of the node children hang from.
\* node.bounds(fonts) takes the node by shared reference and its result is
\* dropped: it leaves the layout as it is.
add_node(l, node, parent) ==
    IF node.name = "html"
    THEN [layout |-> [l EXCEPT !.arena[l.root_id].data = node],
          id |-> l.root_id, panic |-> FALSE]
    ELSE LET r == append_value(l.arena, parent, node)
         IN [layout |-> [l EXCEPT !.arena = r.arena], id |-> r.id, panic |-> FALSE]

\* Layout::handle_element
handle_element(l, el, parent) ==
    LET node == handle_attrs(DOMNode_new(el.name), el.attrs)
    IN IF node.panic THEN [layout |-> l, id |-> parent, panic |-> TRUE]
       ELSE add_node(l, node.out, parent)

\* the match of compute_node on the node's value: the layout and the parent
\* of the node's children
compute_value(l, html_node, parent) ==
    CASE html_node.kind = "Element" -> handle_element(l, html_node, parent)
      [] html_node.kind = "Text" ->
            LET node == text_node(html_node.text)
            IN IF node.panic THEN [layout |-> l, id |-> parent, panic |-> TRUE]
               ELSE [layout |-> [l EXCEPT !.arena = append_value(l.arena, parent, node.out).arena],
                     id |-> parent, panic |-> FALSE]
      [] OTHER -> [layout |-> l, id |-> parent, panic |-> FALSE]

-----------------------------------------------------------------------------
(* Document trees *)

\* most nodes of a document tree below its Document node
MaxDocNodes == 3

\* the Document node every tree hangs from; it has id 0
DocumentNode ==
    [kind |-> "Document", name |-> "", attrs |-> <<>>, text |-> <<>>, parent |-> 0]

\* a node of kind k below node p
Node(k, p) ==
    [kind |-> k.kind, name |-> k.name, attrs |-> k.attrs, text |-> k.text, parent |-> p]

\* the nodes trees are built from: html and p elements without attributes
\* and with a style attribute, a text with a whitespace run, a text with a
\* two-byte character and a comment
NodeKinds ==
    { [kind |-> "Element", name |-> "html", attrs |-> <<>>, text |-> <<>>],
      [kind |-> "Element", name |-> "html",
       attrs |-> << <<"lang", <<"e", "n">>>>, <<"style", AttrColorRed>> >>, text |-> <<>>],
      [kind |-> "Element", name |-> "p", attrs |-> <<>>, text |-> <<>>],
      [kind |-> "Element", name |-> "p",
       attrs |-> << <<"style", AttrDisplayFlex>> >>, text |-> <<>>],
      [kind |-> "Text", name |-> "", attrs |-> <<>>, text |-> <<"a", " ", " ", "b">>],
      [kind |-> "Text", name |-> "", attrs |-> <<>>, text |-> <<Eacute>>],
      [kind |-> "Comment", name |-> "", attrs |-> <<>>, text |-> <<>>] }

\* the nodes of tree d a new node can hang from: the Document node and the
\* elements
ParentsIn(d) == {0} \cup {i \in DOMAIN d : d[i].kind = "Element"}

\* the parents of the nodes of a tree of n nodes: a node's id is greater
\* than its parent's, so the children of a node are in the order of their ids
ParentsOf(n) == {ps \in [1..n -> 0..(n - 1)] : \A i \in 1..n : ps[i] < i}

\* the trees of exactly n nodes: only the Document node and elements have
\* children
TreesOf(n) ==
    {d \in {[i \in 1..n |-> Node(ks[i], ps[i])] : ks \in [1..n -> NodeKinds], ps \in ParentsOf(n)} :
        \A i \in 1..n : d[i].parent \in ParentsIn(d)}

\* node i of tree d
NodeAt(d, i) == IF i = 0 THEN DocumentNode ELSE d[i]

\* html_node.children(): the children of node i, in document order
RECURSIVE children_from(_, _, _)
children_from(d, i, j) ==
    IF j > Len(d) THEN <<>>
    ELSE (IF d[j].parent = i THEN <<j>> ELSE <<>>) \o children_from(d, i, j + 1)

children(d, i) == children_from(d, i, 1)

-----------------------------------------------------------------------------
(* Layout::compute *)

LayoutInit ==
    /\ \E n \in 0..MaxDocNodes : doc \in TreesOf(n)
    /\ layout = [arena |-> <<>>, root_id |-> 0]
    /\ calls = <<>>
    /\ css = <<>>
    /\ mode = "Normal"
    /\ inline = <<>>
    /\ src = <<>>
    /\ parser = NoParser
    /\ attrs = <<>>
    /\ pc = "layout0"
    /\ steps = 0
    /\ out1 = NoResult
    /\ out2 = NoResult
    /\ ret = NoResult
    /\ HostIdle

\* Layout::compute: the default layout and the call of compute_node on the
\* root of the document
Compute ==
    /\ pc = "layout0"
    /\ layout' = Layout_default
    /\ calls' = << [node |-> 0, parent |-> Layout_default.root_id] >>
    /\ pc' = "computing"
    /\ UNCHANGED <<css, mode, inline, src, parser, attrs, steps, out1, out2, ret, doc>>
    /\ UNCHANGED hostVars

\* one call of compute_node up to its loop: the calls on the children run
\* next, in document order, before the calls that were pending
ComputeNode ==
    /\ pc = "computing"
    /\ calls # <<>>
    /\ LET call == Head(calls)
           r == compute_value(layout, NodeAt(doc, call.node), call.parent)
           kids == children(doc, call.node)
       IN IF r.panic
          THEN pc' = "panicked" /\ UNCHANGED <<layout, calls>>
          ELSE /\ pc' = "computing"
               /\ layout' = r.layout
               /\ calls' = [i \in DOMAIN kids |-> [node |-> kids[i], parent |-> r.id]]
                              \o Tail(calls)
    /\ steps' = steps + 1
    /\ UNCHANGED <<css, mode, inline, src, parser, attrs, out1, out2, ret, doc>>
    /\ UNCHANGED hostVars

\* the outermost compute_node has returned: Layout::compute returns layout
ComputeReturn ==
    /\ pc = "computing"
    /\ calls = <<>>
    /\ pc' = "done"
    /\ UNCHANGED <<css, mode, inline, src, parser, attrs, steps, out1, out2, ret>>
    /\ UNCHANGED layoutVars
    /\ UNCHANGED hostVars

LayoutNext == Compute \/ ComputeNode \/ ComputeReturn

SpecLayout == LayoutInit /\ [][LayoutNext]_vars

-----------------------------------------------------------------------------
(* Claims on the layout tree *)

\* the elements of tree d right below the Document node
TopElements(d) == {i \in DOMAIN d : d[i].parent = 0 /\ d[i].kind = "Element"}

\* the root element of tree d is html
RootIsHtml(d) ==
    /\ Cardinality(TopElements(d)) = 1
    /\ \A i \in TopElements(d) : d[i].name = "html"

\* the attributes of a source element as a map
RECURSIVE AttrMap(_)
AttrMap(pairs) ==
    IF pairs = <<>> THEN <<>>
    ELSE LET rest == AttrMap(SubSeq(pairs, 1, Len(pairs) - 1))
             last == pairs[Len(pairs)]
         IN [k \in DOMAIN rest \cup {last[1]} |-> IF k = last[1] THEN last[2] ELSE rest[k]]

\* the inline style of a source element: the parse of its style attribute
StyleOf(el) ==
    IF "style" \in DOMAIN AttrMap(el.attrs)
    THEN Some(parse_inline(AttrMap(el.attrs)["style"]).out)
    ELSE None

\* the nodes of tree d that get a layout node of their own: the texts and
\* the elements not named html
Appends(d, i) ==
    d[i].kind = "Text" \/ (d[i].kind = "Element" /\ d[i].name # "html")

\* C19: after building a layout tree from a document whose root element is
\* html, the tree has exactly one node named html, it is the root, and it
\* carries the attributes and the inline style of the source html element;
\* an html element never adds a node: the tree has the root and one node for
\* each text and each element not named html.
C19_RootMerge ==
    (pc = "done" /\ RootIsHtml(doc)) =>
        LET root == layout.arena[layout.root_id]
            html == CHOOSE i \in TopElements(doc) : TRUE
        IN /\ {x \in DOMAIN layout.arena : layout.arena[x].data.name = "html"}
                  = {layout.root_id}
           /\ root.parent = None
           /\ root.data.attrs = AttrMap(doc[html].attrs)
           /\ root.data.style = StyleOf(doc[html])
           /\ Len(layout.arena) = 1 + Cardinality({i \in DOMAIN doc : Appends(doc, i)})

\* the nodes of tree d below and including node i, a node before its
\* children and siblings in document order
RECURSIVE Preorder(_, _)
Preorder(d, i) ==
    LET RECURSIVE each(_)
        each(kids) == IF kids = <<>> THEN <<>>
                      ELSE Preorder(d, Head(kids)) \o each(Tail(kids))
    IN <<i>> \o each(children(d, i))

\* where node i stands in the traversal of tree d
PositionOf(d, i) == CHOOSE k \in DOMAIN Preorder(d, 0) : Preorder(d, 0)[k] = i

\* the layout node of source node i: the root for the Document node and for
\* an html element, else the node added when the traversal reached i
LayoutOf(d, i) ==
    IF i = 0 \/ ~Appends(d, i) THEN 1
    ELSE 1 + Cardinality({j \in DOMAIN d : Appends(d, j) /\ PositionOf(d, j) <= PositionOf(d, i)})

\* the children of source node i that get a layout node, in document order
AppendedChildren(d, i) == SelectSeq(children(d, i), LAMBDA j : Appends(d, j))

\* C20: the layout tree mirrors the source tree: it has exactly one root,
\* the layout node of every element is a child of the layout node of its
\* nearest enclosing element (of the root for a top-level element; the root
\* itself stands for the top-level html element), a text node hangs from the
\* layout node of its enclosing element, and the children of a layout node
\* are the layout nodes of the source children, in document order.
C20_LayoutMirrorsSource ==
    pc = "done" =>
        /\ {x \in DOMAIN layout.arena : layout.arena[x].parent = None} = {layout.root_id}
        /\ \A i \in DOMAIN doc :
               /\ (doc[i].kind = "Element" /\ ~(doc[i].name = "html" /\ doc[i].parent = 0)) =>
                      /\ layout.arena[LayoutOf(doc, i)].data.name = doc[i].name
                      /\ layout.arena[LayoutOf(doc, i)].parent = Some(LayoutOf(doc, doc[i].parent))
                      /\ layout.arena[LayoutOf(doc, i)].children
                             = [k \in DOMAIN AppendedChildren(doc, i) |->
                                   LayoutOf(doc, AppendedChildren(doc, i)[k])]
               /\ doc[i].kind = "Text" =>
                      /\ layout.arena[LayoutOf(doc, i)].data.name = ""
                      /\ layout.arena[LayoutOf(doc, i)].parent = Some(LayoutOf(doc, doc[i].parent))
                      /\ layout.arena[LayoutOf(doc, i)].children = <<>>

\* C21: the style of a layout node reflects only the style attribute of its
\* own source node: the layout node of an element holds the inline parse of
\* the element's style attribute, or no style when the element has none, and
\* the layout node of a text holds no style, whatever the ancestors, the
\* siblings and the descendants of the source node are.
C21_StyleFromOwnAttribute ==
    pc = "done" =>
        \A i \in DOMAIN doc :
            /\ doc[i].kind = "Element" =>
                   layout.arena[LayoutOf(doc, i)].data.style = StyleOf(doc[i])
            /\ doc[i].kind = "Text" =>
                   layout.arena[LayoutOf(doc, i)].data.style = None

-----------------------------------------------------------------------------
(* Layout::compute as one call *)

\* F(x) with x evaluated once: a `let` binding of a value
With(x, F(_)) == CHOOSE v \in {F(r) : r \in {x}} : TRUE

\* Layout::compute_node on node i of tree d with the layout l: the layout
\* after the call, or a panic.  compute_children is its loop over the
\* children still to visit.
RECURSIVE compute_node(_, _, _, _)
RECURSIVE compute_children(_, _, _, _)
compute_node(l, d, i, parent) ==
    LET visit(r) == IF r.panic THEN [layout |-> l, panic |-> TRUE]
                    ELSE compute_children(r.layout, d, children(d, i), r.id)
    IN With(compute_value(l, NodeAt(d, i), parent), visit)

compute_children(l, d, kids, parent) ==
    IF kids = <<>> THEN [layout |-> l, panic |-> FALSE]
    ELSE LET next(r) == IF r.panic THEN r
                        ELSE compute_children(r.layout, d, Tail(kids), parent)
         IN With(compute_node(l, d, Head(kids), parent), next)

\* Layout::compute: the layout built from Layout::default(), or a panic
Layout_compute(d) == compute_node(Layout_default, d, 0, Layout_default.root_id)

-----------------------------------------------------------------------------
(* WebContext (src/src/context.rs) *)

\* most calls of load and recompute_layout made on a context
MaxCalls == 3

\* an element of a page
El(name, pairs, parent) ==
    [kind |-> "Element", name |-> name, attrs |-> pairs, text |-> <<>>, parent |-> parent]

\* a text of a page
Tx(text, parent) ==
    [kind |-> "Text", name |-> "", attrs |-> <<>>, text |-> text, parent |-> parent]

\* the html, head and body elements every parsed page starts with
Skeleton == <<El("html", <<>>, 0), El("head", <<>>, 1), El("body", <<>>, 1)>>

\* the page texts a context is loaded with
PageTexts ==
    {"", "<p style='display: flex'>a  b</p>", "<svg><html style=' color: red'><g>",
     "<p>U+00E9</p>"}

\* Html::parse_document: the tree the parser builds for a page text
parse_document(data) ==
    CASE data = "" -> Skeleton
      [] data = "<p style='display: flex'>a  b</p>" ->
             Skeleton \o <<El("p", << <<"style", AttrDisplayFlex>> >>, 3),
                           Tx(<<"a", " ", " ", "b">>, 4)>>
      [] data = "<svg><html style=' color: red'><g>" ->
             Skeleton \o <<El("svg", <<>>, 3),
                           El("html", << <<"style", AttrColorRed>> >>, 4),
                           El("g", <<>>, 5)>>
      [] data = "<p>U+00E9</p>" ->
             Skeleton \o <<El("p", <<>>, 3), Tx(<<Eacute>>, 4)>>

\* the values of Instant::elapsed
Durations == {0, 1}

\* Timers::default()
Timers_default == [pull |-> 0, parse |-> 0, layout |-> 0, total |-> 0]

\* WebContext::new (html_str None) and WebContext::new_from_html
WebContext_new(html_str) ==
    [html_str |-> html_str,
     timers |-> Timers_default,
     document |-> None,
     layout |-> Layout_default]

\* the result Ok(v) of a call
Ok(v) == [ok |-> TRUE, val |-> v]

\* the result Err of a call
Err == [ok |-> FALSE, val |-> <<>>]

\* recompute_layout with the fault of building into the layout already
\* there instead of a new one
recompute_layout_kept(c, t) ==
    IF c.document = None THEN [ctx |-> c, panic |-> TRUE]
    ELSE LET assign(r) ==
                 IF r.panic THEN [ctx |-> c, panic |-> TRUE]
                 ELSE [ctx |-> [c EXCEPT !.layout = r.layout, !.timers.layout = t],
                       panic |-> FALSE]
         IN With(compute_node(c.layout, c.document[1], 0, c.layout.root_id), assign)

\* WebContext::recompute_layout with the time t it takes: the context after
\* the call, or a panic (no document, or a panic of Layout::compute)
recompute_layout(c, t) ==
    IF c.document = None THEN [ctx |-> c, panic |-> TRUE]
    ELSE LET assign(r) ==
                 IF r.panic THEN [ctx |-> c, panic |-> TRUE]
                 ELSE [ctx |-> [c EXCEPT !.layout = r.layout, !.timers.layout = t],
                       panic |-> FALSE]
         IN With(Layout_compute(c.document[1]), assign)

\* load with the fault of writing the pull timer before the error of the
\* pull is returned
load_early_timer(c, pulled, t) ==
    IF c.html_str = None /\ ~pulled.ok
    THEN [ctx |-> [c EXCEPT !.timers.pull = t.pull], pulls |-> 1, panic |-> FALSE, result |-> Err]
    ELSE LET data == IF c.html_str # None THEN c.html_str[1] ELSE pulled.val
             c1 == [c EXCEPT !.timers.pull = t.pull,
                             !.document = Some(parse_document(data)),
                             !.timers.parse = t.parse]
             finish(r) ==
                 IF r.panic
                 THEN [ctx |-> c1, pulls |-> IF c.html_str = None THEN 1 ELSE 0,
                       panic |-> TRUE, result |-> Err]
                 ELSE [ctx |-> [r.ctx EXCEPT !.timers.total = t.total],
                       pulls |-> IF c.html_str = None THEN 1 ELSE 0,
                       panic |-> FALSE, result |-> Ok(<<>>)]
         IN With(recompute_layout(c1, t.layout), finish)

\* WebContext::load with the outcome pulled of pull_str (used when no HTML
\* string was supplied) and the times t the steps take: the context after
\* the call, the number of pulls made, and the result Ok(()), Err or a panic
load(c, pulled, t) ==
    IF c.html_str = None /\ ~pulled.ok
    THEN [ctx |-> c, pulls |-> 1, panic |-> FALSE, result |-> Err]
    ELSE LET data == IF c.html_str # None THEN c.html_str[1] ELSE pulled.val
             c1 == [c EXCEPT !.timers.pull = t.pull,
                             !.document = Some(parse_document(data)),
                             !.timers.parse = t.parse]
             finish(r) ==
                 IF r.panic
                 THEN [ctx |-> c1, pulls |-> IF c.html_str = None THEN 1 ELSE 0,
                       panic |-> TRUE, result |-> Err]
                 ELSE [ctx |-> [r.ctx EXCEPT !.timers.total = t.total],
                       pulls |-> IF c.html_str = None THEN 1 ELSE 0,
                       panic |-> FALSE, result |-> Ok(<<>>)]
         IN With(recompute_layout(c1, t.layout), finish)

\* a context has been built by WebContext::new or WebContext::new_from_html;
\* ret records the last call and its result
ContextInit ==
    /\ \E h \in {None} \cup {Some(data) : data \in PageTexts} : ctx = WebContext_new(h)
    /\ net = 0
    /\ storage = <<>>
    /\ lookups = <<>>
    /\ css = <<>>
    /\ mode = "Normal"
    /\ inline = <<>>
    /\ src = <<>>
    /\ parser = NoParser
    /\ attrs = <<>>
    /\ pc = "context"
    /\ steps = 0
    /\ out1 = NoResult
    /\ out2 = NoResult
    /\ ret = [call |-> "new", panic |-> FALSE, result |-> Ok(<<>>)]
    /\ LayoutIdle

\* a call of WebContext::load; ret records the call and its result
Load ==
    /\ pc = "context"
    /\ steps < MaxCalls
    /\ \E pulled \in {Err} \cup {Ok(data) : data \in PageTexts} :
       \E t \in [pull : Durations, parse : Durations, layout : Durations, total : Durations] :
           \E r \in {load(ctx, pulled, t)} :
              /\ ctx' = r.ctx
              /\ net' = net + r.pulls
              /\ pc' = IF r.panic THEN "panicked" ELSE "context"
              /\ ret' = [call |-> "load", panic |-> r.panic, result |-> r.result]
    /\ steps' = steps + 1
    /\ UNCHANGED <<css, mode, inline, src, parser, attrs, out1, out2, storage, lookups>>
    /\ UNCHANGED layoutVars

\* a call of WebContext::recompute_layout
RecomputeLayout ==
    /\ pc = "context"
    /\ steps < MaxCalls
    /\ \E t \in Durations :
           \E r \in {recompute_layout(ctx, t)} :
              /\ ctx' = r.ctx
              /\ pc' = IF r.panic THEN "panicked" ELSE "context"
              /\ ret' = [call |-> "recompute_layout", panic |-> r.panic, result |-> Ok(<<>>)]
    /\ steps' = steps + 1
    /\ UNCHANGED <<css, mode, inline, src, parser, attrs, out1, out2, net, storage, lookups>>
    /\ UNCHANGED layoutVars

ContextNext == Load \/ RecomputeLayout

SpecContext == ContextInit /\ [][ContextNext]_vars

-----------------------------------------------------------------------------
(* Claims on the web context *)

\* C22: the layout tree is rebuilt wholesale on every recomputation:
\* whenever the context holds a document, after any number of load and
\* recompute_layout calls, its layout is the layout one computation builds
\* from that document starting from the default layout; nothing of an
\* earlier layout is kept.
C22_RebuiltWholesale ==
    (pc = "context" /\ ctx.document # None) =>
        ctx.layout = Layout_compute(ctx.document[1]).layout

\* one load that pulled a page with more than the root, then two
\* recomputations
C22_Witness ==
    /\ pc = "context"
    /\ steps = 3
    /\ net = 1
    /\ ctx.html_str = None
    /\ ctx.document # None
    /\ ret.call = "recompute_layout"
    /\ Len(ctx.layout.arena) > 3

\* the step is a call of load that returned
LoadReturned == steps' = steps + 1 /\ ret'.call = "load" /\ ~ret'.panic

\* C29: a load whose pull fails returns the error and leaves the document,
\* the layout and the timers of the context unchanged; after a load that
\* succeeds the document is present and the layout is the one computed from
\* it; and a context built with an HTML string loads that string and makes no
\* pull, so its load never returns an error.
C29_LoadErrorHandling ==
    /\ [][(LoadReturned /\ ~ret'.result.ok) =>
              /\ ctx.html_str = None
              /\ ctx'.document = ctx.document
              /\ ctx'.layout = ctx.layout
              /\ ctx'.timers = ctx.timers]_vars
    /\ [][(LoadReturned /\ ret'.result.ok) =>
              /\ ctx'.document # None
              /\ ctx'.layout = Layout_compute(ctx'.document[1]).layout]_vars
    /\ [][(steps' = steps + 1 /\ ret'.call = "load" /\ ctx.html_str # None) =>
              /\ net' = net
              /\ ctx'.document = Some(parse_document(ctx.html_str[1]))
              /\ ~ret'.panic => ret'.result.ok]_vars

\* a load failed on a context that an earlier load had filled
C29_Witness ==
    /\ pc = "context"
    /\ ret.call = "load"
    /\ ~ret.result.ok
    /\ ctx.document # None
    /\ ctx.timers.pull = 1
    /\ net = 2

-----------------------------------------------------------------------------
(* FontStorage (src/src/fonts.rs) *)

\* most calls made on a font storage
MaxFontCalls == 3

\* the font loaded from internal/cruft.ttf
CruftFont == "cruft.ttf"

\* FontStorage::default()
FontStorage_default ==
    [serif |-> None,
     sans_serif |-> None,
     monospace |-> None,
     cursive |-> None,
     cache_fonts |-> TRUE,
     cached_font |-> None,
     fallback_font |-> CruftFont]

\* FontStorage::load_system_fonts: found[f] is what get_font_data(..).ok()
\* gives for generic family f
load_system_fonts(s, found) ==
    [s EXCEPT !.serif = found.serif,
              !.sans_serif = found.sans_serif,
              !.monospace = found.monospace,
              !.cursive = found.cursive]

\* what the system may hold for the four generic families: for each, no font
\* or the family's font
SystemFonts ==
    [serif : {None, Some("system serif")},
     sans_serif : {None, Some("system sans serif")},
     monospace : {None, Some("system monospace")},
     cursive : {None, Some("system cursive")}]

\* FontStorage::serif
serif(s) ==
    IF s.serif # None THEN s.serif[1]
    ELSE IF s.sans_serif # None THEN s.sans_serif[1]
    ELSE IF s.monospace # None THEN s.monospace[1]
    ELSE s.fallback_font

\* FontStorage::sans_serif
sans_serif(s) ==
    IF s.sans_serif # None THEN s.sans_serif[1]
    ELSE IF s.serif # None THEN s.serif[1]
    ELSE IF s.monospace # None THEN s.monospace[1]
    ELSE s.fallback_font

\* FontStorage::monospace
monospace(s) ==
    IF s.monospace # None THEN s.monospace[1]
    ELSE IF s.sans_serif # None THEN s.sans_serif[1]
    ELSE IF s.serif # None THEN s.serif[1]
    ELSE s.fallback_font

\* FontStorage::cursive
cursive(s) ==
    IF s.cursive # None THEN s.cursive[1]
    ELSE IF s.sans_serif # None THEN s.sans_serif[1]
    ELSE IF s.serif # None THEN s.serif[1]
    ELSE s.fallback_font

\* by_name with the fault of emptying the slot when the lookup fails
by_name_forgets(s, name, found) ==
    IF s.cached_font # None /\ s.cached_font[1][1] = name
    THEN [storage |-> s, font |-> Some(s.cached_font[1][2]), looked |-> FALSE]
    ELSE IF found = None
         THEN [storage |-> [s EXCEPT !.cached_font = None], font |-> None, looked |-> TRUE]
    ELSE [storage |-> [s EXCEPT !.cached_font = Some(<<name, found[1]>>)],
          font |-> Some(found[1]), looked |-> TRUE]

\* FontStorage::by_name, found being what get_font_data(..).ok() gives when
\* it is called: the storage after the call, the font returned, and whether
\* a font lookup was made
by_name(s, name, found) ==
    IF s.cached_font # None /\ s.cached_font[1][1] = name
    THEN [storage |-> s, font |-> Some(s.cached_font[1][2]), looked |-> FALSE]
    ELSE IF found = None
         THEN [storage |-> s, font |-> None, looked |-> TRUE]
    ELSE [storage |-> [s EXCEPT !.cached_font = Some(<<name, found[1]>>)],
          font |-> Some(found[1]), looked |-> TRUE]

\* the font names by_name is called with
FontNames == {"Arial", "Courier", "Nofont"}

\* the fonts a lookup by name may find: the font file may change between
\* two lookups, and Nofont is never found
FontFiles(name) ==
    IF name = "Nofont" THEN {None}
    ELSE {None, Some(<<name, "v1">>), Some(<<name, "v2">>)}

\* FontStorage::with_system_fonts on a system with any of the four generic
\* fonts (with none: FontStorage::with_fallback_font)
FontsInit ==
    /\ \E found \in SystemFonts : storage = load_system_fonts(FontStorage_default, found)
    /\ lookups = [count |-> 0, last |-> None]
    /\ ctx = <<>>
    /\ net = 0
    /\ css = <<>>
    /\ mode = "Normal"
    /\ inline = <<>>
    /\ src = <<>>
    /\ parser = NoParser
    /\ attrs = <<>>
    /\ pc = "fonts"
    /\ steps = 0
    /\ out1 = NoResult
    /\ out2 = NoResult
    /\ ret = [call |-> "new", name |-> "", font |-> None]
    /\ LayoutIdle

\* a call of one of the four generic accessors; ret records the call and the
\* font it returned
Accessor ==
    /\ pc = "fonts"
    /\ steps < MaxFontCalls
    /\ \/ ret' = [call |-> "serif", name |-> "", font |-> Some(serif(storage))]
       \/ ret' = [call |-> "sans_serif", name |-> "", font |-> Some(sans_serif(storage))]
       \/ ret' = [call |-> "monospace", name |-> "", font |-> Some(monospace(storage))]
       \/ ret' = [call |-> "cursive", name |-> "", font |-> Some(cursive(storage))]
    /\ steps' = steps + 1
    /\ UNCHANGED <<css, mode, inline, src, parser, attrs, pc, out1, out2, ctx, net, storage, lookups>>
    /\ UNCHANGED layoutVars

\* a call of by_name; lookups counts the font lookups made and keeps the
\* last one that found a font
ByName ==
    /\ pc = "fonts"
    /\ steps < MaxFontCalls
    /\ \E name \in FontNames : \E found \in FontFiles(name) :
           LET r == by_name(storage, name, found)
           IN /\ storage' = r.storage
              /\ ret' = [call |-> "by_name", name |-> name, font |-> r.font]
              /\ lookups' = IF ~r.looked THEN lookups
                            ELSE [count |-> lookups.count + 1,
                                  last |-> IF found = None THEN lookups.last
                                           ELSE Some(<<name, found[1]>>)]
    /\ steps' = steps + 1
    /\ UNCHANGED <<css, mode, inline, src, parser, attrs, pc, out1, out2, ctx, net>>
    /\ UNCHANGED layoutVars

FontsNext == Accessor \/ ByName

SpecFonts == FontsInit /\ [][FontsNext]_vars

-----------------------------------------------------------------------------
(* Claims on the font storage *)

\* the first font loaded among the fields named by order, the built-in
\* fallback font when none is
RECURSIVE FirstLoaded(_, _)
FirstLoaded(s, order) ==
    IF order = <<>> THEN s.fallback_font
    ELSE IF s[Head(order)] # None THEN s[Head(order)][1]
    ELSE FirstLoaded(s, Tail(order))

\* the documented priority order of each accessor
PriorityOf(call) ==
    CASE call = "serif" -> <<"serif", "sans_serif", "monospace", "cursive">>
      [] call = "sans_serif" -> <<"sans_serif", "serif", "monospace", "cursive">>
      [] call = "monospace" -> <<"monospace", "sans_serif", "serif", "cursive">>
      [] call = "cursive" -> <<"cursive", "sans_serif", "serif", "monospace">>

\* C23: each generic font accessor returns the first loaded font of its
\* documented priority order, whatever fonts are loaded and missing; the
\* built-in fallback font is returned only when none of the four is loaded.
C23_AccessorPriority ==
    (pc = "fonts" /\ ret.call \in {"serif", "sans_serif", "monospace", "cursive"}) =>
        ret.font = Some(FirstLoaded(storage, PriorityOf(ret.call)))

\* the step is a call of by_name
ByNameCalled == steps' = steps + 1 /\ ret'.call = "by_name"

\* C24: the font-by-name memo is a one-slot cache: after any sequence of
\* by_name calls the slot holds the name and the font of the most recent
\* lookup that found a font; a call for the name held in the slot returns the
\* font of the slot and makes no font lookup; and a lookup that fails leaves
\* the slot unchanged.
C24_OneSlotMemo ==
    /\ [](pc = "fonts" => storage.cached_font = lookups.last)
    /\ [][(ByNameCalled /\ storage.cached_font # None
             /\ storage.cached_font[1][1] = ret'.name) =>
              /\ ret'.font = Some(storage.cached_font[1][2])
              /\ lookups' = lookups
              /\ storage' = storage]_vars
    /\ [][(ByNameCalled /\ lookups'.count > lookups.count /\ ret'.font = None) =>
              storage' = storage]_vars

\* a lookup failed while the slot held the font of an earlier lookup
C24_Witness ==
    /\ pc = "fonts"
    /\ ret.call = "by_name"
    /\ ret.font = None
    /\ lookups.count = 2
    /\ storage.cached_font # None

-----------------------------------------------------------------------------
(* GlobalStyle::from_css on rules with unfinished declarations *)

\* s{color;} : a property name with no value
RuleS ==
    <<"s", "{", "c", "o", "l", "o", "r", ";", "}">>

\* a{color:red} : no `;` before the closing brace
RuleA ==
    <<"a", "{", "c", "o", "l", "o", "r", ":", "r", "e", "d", "}">>

\* `h1, h2 ` : a selector list
SelectorList ==
    <<"h", "1", ",", " ", "h", "2", " ">>

\* `>.#` : characters of selectors that are not name characters
Combinators ==
    <<">", ".", "#">>

\* m{margin:1px 2px 3px 4px 5px;} : a margin of five lengths
RuleM ==
    <<"m", "{", "m", "a", "r", "g", "i", "n", ":", "1", "p", "x", " ", "2",
      "p", "x", " ", "3", "p", "x", " ", "4", "p", "x", " ", "5", "p", "x",
      ";", "}">>

\* the fragments the stylesheet texts of SpecScan are assembled from
ScanFragments ==
    {RuleP, RuleM, RuleS, RuleA, UnclosedQ, CloseBrace, SelectorList,
     Combinators, <<"{">>, <<" ">>, <<";">>, <<":">>}

ScanInit ==
    /\ src \in SeqsUpTo(ScanFragments, MaxFragments)
    /\ css = Concat(src)
    /\ mode \in Modes
    /\ inline = <<>>
    /\ parser = NoParser
    /\ attrs = <<>>
    /\ pc = "start"
    /\ steps = 0
    /\ out1 = NoResult
    /\ out2 = NoResult
    /\ ret = NoResult
    /\ LayoutIdle
    /\ HostIdle

\* from_css, as in Spec, on the texts of ScanFragments
SpecScan == ScanInit /\ [][Next]_vars

-----------------------------------------------------------------------------
(* Claims on the scan of rules *)

\* the step of the scan commits a rule
Commits == pc = "parsing" /\ Len(parser'.style.rules) > Len(parser.style.rules)

\* C25: when a rule is committed at its closing brace, the pending selector
\* and the pending property name are both reset: after a commit no selector
\* and no property name is pending.
C25_CommitResetsPending ==
    [][Commits => (parser'.selector = None /\ parser'.attr_name = None)]_vars

\* rule sequence r is a prefix of rule sequence s
IsPrefix(r, s) == Len(r) <= Len(s) /\ SubSeq(s, 1, Len(r)) = r

\* C26: committed rules are append-only: at every step of the scan the rule
\* sequence of the GlobalStyle is a prefix of the rule sequence after the
\* step, so of the sequence at every later step and of the one parse returns;
\* a committed Declaration is a copy that later property resolution does not
\* change.
C26_RulesAppendOnly ==
    /\ [][pc = "parsing" => IsPrefix(parser.style.rules, parser'.style.rules)]_vars
    /\ [][(pc = "parsing" /\ pc' = "done") => ret'.out.rules = parser.style.rules]_vars

\* a property was resolved after the first commit and a second rule was
\* committed: the declaration being accumulated has moved on from the copy
\* committed with the first rule
C26_Witness ==
    /\ pc = "parsing"
    /\ Len(parser.style.rules) = 2
    /\ parser.style.rules[1][2] # parser.style.rules[2][2]
    /\ parser.decl # parser.style.rules[1][2]

\* the offset at which the run that starts at the parser's position ends:
\* that of the next `;` or `:`, or the end of the input
RunEnd(p) ==
    CHOOSE j \in p.pos..Len(p.input) :
        /\ j = Len(p.input) \/ p.input[j + 1] \in {";", ":"}
        /\ \A k \in p.pos..(j - 1) : p.input[k + 1] \notin {";", ":"}

\* the text of that run
RunText(p) == SubSeq(p.input, p.pos + 1, RunEnd(p))

\* the step of the scan consumes a property name or value run
ConsumesRun ==
    /\ pc = "parsing"
    /\ ~eof(parser)
    /\ parser.brace_level >= 1
    /\ peek(parser) \notin {"{", "}", " ", ";", ":"}

\* C27: inside a rule a property name or value run extends to the next `;`
\* or `:` whatever braces it holds, and the braces of the run leave the brace
\* depth as it is and commit nothing; the run is the property name, or the
\* value handed to the resolver.  So a rule whose last declaration has no
\* `;` before the closing brace is not committed at that brace: alone it is
\* never committed, and followed by a rule its value runs into that rule.
C27_RunsSwallowBraces ==
    /\ [][ConsumesRun =>
              /\ parser'.pos = RunEnd(parser)
              /\ parser'.brace_level = parser.brace_level
              /\ parser'.style = parser.style
              /\ (parser.brace_level = 1 /\ parser.attr_name = None) =>
                     parser'.attr_name = Some(RunText(parser))
              /\ (parser.brace_level = 1 /\ parser.attr_name # None) =>
                     LET q == parse_attr_value(parser, RunText(parser))
                     IN /\ parser'.panicked = q.panicked
                        /\ ~q.panicked => parser'.decl = q.decl]_vars
    /\ []((pc = "done" /\ src = <<RuleA>>) => ret.out.rules = <<>>)
    /\ []((pc = "done" /\ src = <<RuleA, RuleP>>) =>
              /\ Len(ret.out.rules) = 1
              /\ ret.out.rules[1][1] = <<"a">>
              /\ ret.out.rules[1][2].color = None)

\* the value of `a{color:red}p{color:red;}` has run through the closing
\* brace into the next rule: the scan stands at that rule's `:` at depth 1
\* with nothing committed
C27_Witness ==
    /\ pc = "parsing"
    /\ src = <<RuleA, RuleP>>
    /\ parser.pos = Len(RuleA) + 7
    /\ parser.brace_level = 1
    /\ parser.attr_name = None
    /\ parser.style.rules = <<>>

\* the offset at which the name token that starts at the parser's position
\* ends
NameEnd(p) ==
    CHOOSE j \in p.pos..Len(p.input) :
        /\ j = Len(p.input) \/ ~is_name_char(p.input[j + 1])
        /\ \A k \in p.pos..(j - 1) : is_name_char(p.input[k + 1])

\* the step of the scan is the default arm of advance at brace depth 0
ScansSelector ==
    /\ pc = "parsing"
    /\ ~eof(parser)
    /\ parser.brace_level = 0
    /\ peek(parser) \notin {"{", "}", " "}

\* the step of the scan consumes a name token at brace depth 0
ScansName == ScansSelector /\ is_name_char(peek(parser))

\* C28: a name token scanned at brace depth 0 becomes the pending selector,
\* whatever selector was pending; a character at depth 0 that is no name
\* character is skipped alone and leaves the pending selector; no other step
\* but a commit changes the pending selector, and a commit stores it with the
\* rule.  So `h1, h2 {}` commits one rule, with selector `h2`.
C28_LastNameIsSelector ==
    /\ [][ScansName =>
              /\ parser'.pos = NameEnd(parser)
              /\ parser'.selector =
                     Some(SubSeq(parser.input, parser.pos + 1, NameEnd(parser)))
              /\ parser'.style = parser.style]_vars
    /\ [][(ScansSelector /\ ~ScansName) =>
              /\ parser'.pos = parser.pos + 1
              /\ parser'.selector = parser.selector
              /\ parser'.style = parser.style]_vars
    /\ [][(pc = "parsing" /\ pc' = "parsing" /\ ~ScansName /\ ~Commits) =>
              parser'.selector = parser.selector]_vars
    /\ [][Commits =>
              /\ parser.selector # None
              /\ Len(parser'.style.rules) = Len(parser.style.rules) + 1
              /\ parser'.style.rules[Len(parser'.style.rules)][1] =
                     parser.selector[1]]_vars
    /\ []((pc = "done" /\ src = <<SelectorList, <<"{">>, CloseBrace>>) =>
              /\ Len(ret.out.rules) = 1
              /\ ret.out.rules[1][1] = <<"h", "2">>)

\* `h1, h2 {}` has been parsed: `h2` overwrote the pending `h1` and was
\* committed
C28_Witness ==
    /\ pc = "done"
    /\ src = <<SelectorList, <<"{">>, CloseBrace>>
    /\ Len(ret.out.rules) = 1
    /\ ret.out.rules[1][1] = <<"h", "2">>

\* the step of the scan is a `}` that closes the list of the pending rule:
\* the commit unwraps self.selector
ClosesList ==
    /\ pc = "parsing"
    /\ ~eof(parser)
    /\ peek(parser) = "}"
    /\ parser.decl_brace_level # None
    /\ parser.decl_brace_level[1] = saturating_sub(parser.brace_level, 1)

\* C30: in every state of the parser a selector is pending exactly when a
\* declaration-open brace depth is recorded, and a recorded depth is 0; the
\* commit finds a selector to unwrap; a run consumed while no property name
\* is pending is not resolved, so the resolver finds a name to unwrap; and
\* the scan panics at no step but the resolution of the value of a margin
\* property.
C30_ParserInvariants ==
    /\ []((parser.selector # None) <=> (parser.decl_brace_level # None))
    /\ [](parser.decl_brace_level # None => parser.decl_brace_level = Some(0))
    /\ [][ClosesList => parser.selector # None]_vars
    /\ [][(ConsumesRun /\ parser.attr_name = None) =>
              (parser'.decl = parser.decl /\ ~parser'.panicked)]_vars
    /\ [][(pc = "parsing" /\ parser'.panicked) =>
              /\ ConsumesRun
              /\ parser.brace_level = 1
              /\ parser.attr_name # None
              /\ parser.attr_name[1] \in {Prop.margin, Prop.margin_top,
                      Prop.margin_right, Prop.margin_bottom, Prop.margin_left}]_vars

\* inside the braces of a rule whose selector is pending with depth 0
\* recorded, the resolver has resolved the colour of a declaration
C30_Witness ==
    /\ pc = "parsing"
    /\ parser.selector # None
    /\ parser.decl_brace_level = Some(0)
    /\ parser.brace_level = 1
    /\ parser.attr_name = None
    /\ parser.decl.color # None

====
